---------------------------- MODULE Spec2Model ----------------------------
(***************************************************************************)
(* A model of wrestling_logger's two pipelines: the chunked LLM            *)
(* reformatting pass (ai_format.py) and the transcript extraction          *)
(* pipeline (transcripts.py).                                              *)
(*                                                                         *)
(* Python strings are sequences of one-character strings; positions are    *)
(* 0-based as in the source, so character i of s is s[i + 1].  An optional *)
(* value is a sequence of length 0 (None) or 1 (the value).                *)
(***************************************************************************)
EXTENDS Integers, Sequences, FiniteSets, TLC

VARIABLES
    \* _split_into_chunks
    text, chunk_size, pos, chunks, spans, cpc,
    \* format_document_with_ai
    content, model, openai_available, api_key, fpc, fchunks, fi, formatted_chunks,
    calls, fresult, ferror,
    \* _extract_caption_text
    info, rlangs, net, rpc, ridx, fetched, rresult,
    \* fetch_transcripts
    video_ids, languages, vi, results, lookups, causes, tpc,
    \* one call of a function without side effects: its name, argument, result
    fn, arg, ret,
    \* main, from the creation of the document on
    doc_body, unformatted, use_ai, mpc, write_calls, doc_deleted,
    doc_id, doc_calls, main_error

chunkVars   == <<text, chunk_size, pos, chunks, spans, cpc>>
formatVars  == <<content, model, openai_available, api_key, fpc, fchunks, fi,
                 formatted_chunks, calls, fresult, ferror>>
resolveVars == <<info, rlangs, net, rpc, ridx, fetched, rresult>>
fetchVars   == <<video_ids, languages, vi, results, lookups, causes, tpc>>
pureVars    == <<fn, arg, ret>>
mainVars    == <<doc_body, unformatted, use_ai, mpc, write_calls, doc_deleted,
                 doc_id, doc_calls, main_error>>
vars        == <<chunkVars, formatVars, resolveVars, fetchVars, pureVars, mainVars>>

-----------------------------------------------------------------------------
(* Bounds of the model *)

MaxTextLen == 5
MaxChunkSize == 3
MaxEntries == 2
MaxVideos == 2

-----------------------------------------------------------------------------
(* Strings *)

None == <<>>
Some(x) == <<x>>

NL == "\n"
SP == " "
TAB == "\t"

\* The characters str.strip() and str.split() treat as whitespace.
Whitespace == {NL, SP, TAB}

Min(a, b) == IF a <= b THEN a ELSE b

SetMax(S) == CHOOSE m \in S : \A k \in S : k <= m

RECURSIVE StringsUpTo(_, _)
StringsUpTo(alphabet, n) ==
    IF n = 0 THEN {<<>>}
    ELSE LET shorter == StringsUpTo(alphabet, n - 1)
         IN  shorter \cup {Append(s, c) : s \in {t \in shorter : Len(t) = n - 1},
                                          c \in alphabet}

\* s[start:end] for 0 <= start <= end <= len(s)
Slice(s, start, end) == SubSeq(s, start + 1, end)

\* s.rfind(ch, start, end): the highest index in [start, end) holding ch, or -1
RFind(s, ch, start, end) ==
    LET hits == {i \in start .. (end - 1) : s[i + 1] = ch}
    IN  IF hits = {} THEN -1 ELSE SetMax(hits)

RECURSIVE LStrip(_)
LStrip(s) == IF s # <<>> /\ Head(s) \in Whitespace THEN LStrip(Tail(s)) ELSE s

RECURSIVE RStrip(_)
RStrip(s) ==
    IF s # <<>> /\ s[Len(s)] \in Whitespace
    THEN RStrip(SubSeq(s, 1, Len(s) - 1)) ELSE s

\* str.strip()
Strip(s) == RStrip(LStrip(s))

StartsWith(s, prefix) == Len(s) >= Len(prefix) /\ SubSeq(s, 1, Len(prefix)) = prefix

\* Join putting nothing between the parts.
RECURSIVE Join_NoSeparator(_, _)
Join_NoSeparator(parts, sep) ==
    IF parts = <<>> THEN <<>> ELSE parts[1] \o Join_NoSeparator(Tail(parts), sep)

\* sep.join(parts), for a one-character separator
RECURSIVE Join(_, _)
Join(parts, sep) ==
    IF parts = <<>> THEN <<>>
    ELSE IF Len(parts) = 1 THEN parts[1]
    ELSE parts[1] \o <<sep>> \o Join(Tail(parts), sep)

-----------------------------------------------------------------------------
(* _split_into_chunks(text, chunk_size), one loop iteration per step *)

ChunkChars == {"a", "b", SP, NL, TAB}

Separators == {NL, SP}

\* SplitAt accepting a separator found at p itself (`<` for `<=`).
SplitAt_NoProgressGuard(t, p, n) ==
    LET length == Len(t)
        end == Min(p + n, length)
    IN  IF end < length
        THEN LET nl == RFind(t, NL, p, end)
                 s1 == IF nl < p THEN RFind(t, SP, p, end) ELSE nl
             IN  IF s1 < p THEN end ELSE s1
        ELSE end

\* SplitAt looking for a space before it looks for a newline.
SplitAt_SpaceFirst(t, p, n) ==
    LET length == Len(t)
        end == Min(p + n, length)
    IN  IF end < length
        THEN LET sp == RFind(t, SP, p, end)
                 s1 == IF sp <= p THEN RFind(t, NL, p, end) ELSE sp
             IN  IF s1 <= p THEN end ELSE s1
        ELSE end

\* lines 101-109: where the chunk that starts at p ends
SplitAt(t, p, n) ==
    LET length == Len(t)
        end == Min(p + n, length)
    IN  IF end < length
        THEN LET nl == RFind(t, NL, p, end)
                 s1 == IF nl <= p THEN RFind(t, SP, p, end) ELSE nl
             IN  IF s1 <= p THEN end ELSE s1
        ELSE end

\* line 110: text[pos:split_at]
ChunkText(t, p, split_at) == Slice(t, p, split_at)

\* SkipSeparators skipping every whitespace character (str.isspace).
RECURSIVE SkipSeparators_AnyWhitespace(_, _)
SkipSeparators_AnyWhitespace(t, p) ==
    IF p < Len(t) /\ t[p + 1] \in Whitespace
    THEN SkipSeparators_AnyWhitespace(t, p + 1) ELSE p

\* SkipSeparators stepping one character past the separator run.
RECURSIVE SkipSeparators_OneTooMany(_, _)
SkipSeparators_OneTooMany(t, p) ==
    IF p < Len(t) /\ t[p + 1] \in Separators
    THEN SkipSeparators_OneTooMany(t, p + 1) ELSE Min(p + 1, Len(t))

\* lines 112-113: skip the run of newlines and spaces that starts at p
RECURSIVE SkipSeparators(_, _)
SkipSeparators(t, p) ==
    IF p < Len(t) /\ t[p + 1] \in Separators THEN SkipSeparators(t, p + 1) ELSE p

ChunkInit ==
    /\ text \in StringsUpTo(ChunkChars, MaxTextLen)
    /\ chunk_size \in 1 .. MaxChunkSize
    /\ pos = 0
    /\ chunks = <<>>
    /\ spans = <<>>
    /\ cpc = "entry"

\* lines 95-99
ChunkEnter ==
    /\ cpc = "entry"
    /\ cpc' = IF text = <<>> THEN "done" ELSE "loop"
    /\ UNCHANGED <<text, chunk_size, pos, chunks, spans>>

\* lines 100-113, one iteration
ChunkStep ==
    /\ cpc = "loop"
    /\ pos < Len(text)
    /\ LET split_at == SplitAt(text, pos, chunk_size)
       IN  /\ chunks' = Append(chunks, ChunkText(text, pos, split_at))
           /\ spans' = Append(spans, <<pos, split_at>>)
           /\ pos' = SkipSeparators(text, split_at)
    /\ UNCHANGED <<text, chunk_size, cpc>>

\* line 114
ChunkReturn ==
    /\ cpc = "loop"
    /\ pos >= Len(text)
    /\ cpc' = "done"
    /\ UNCHANGED <<text, chunk_size, pos, chunks, spans>>

\* The whole function as an operator, for its callers.
RECURSIVE SplitFrom(_, _, _)
SplitFrom(t, p, n) ==
    IF p < Len(t)
    THEN LET split_at == SplitAt(t, p, n)
         IN  <<ChunkText(t, p, split_at)>> \o SplitFrom(t, SkipSeparators(t, split_at), n)
    ELSE <<>>

\* SplitIntoChunks giving one empty chunk for the empty text.
SplitIntoChunks_EmptyChunk(t, n) == IF t = <<>> THEN << <<>> >> ELSE SplitFrom(t, 0, n)

SplitIntoChunks(t, n) == IF t = <<>> THEN <<>> ELSE SplitFrom(t, 0, n)

-----------------------------------------------------------------------------
(* format_document_with_ai(content, model), one completion call per step *)

\* A model-sized stand-in for CHUNK_MAX_CHARS = 10_000 (line 49).
ScaledChunkMaxChars == 2
CHUNK_MAX_CHARS == ScaledChunkMaxChars

\* A model-sized stand-in for MAX_TOTAL_CHARS = 1_000_000 (line 24).
ScaledMaxTotalChars == 5
MAX_TOTAL_CHARS == ScaledMaxTotalChars

\* Documents up to one character over the ceiling.
MaxDocLen == MAX_TOTAL_CHARS + 1

DocChars == {"a", SP, NL}

\* Response content, as the client library hands it over: missing (None), a
\* string, a list of items, or some other object (rendered by str()).
NoContent == [t |-> "none", s |-> <<>>, items |-> <<>>]
StrContent(s) == [t |-> "str", s |-> s, items |-> <<>>]
ListContent(items) == [t |-> "list", s |-> <<>>, items |-> items]
OtherContent(rendered) == [t |-> "other", s |-> rendered, items |-> <<>>]

\* Items of a list content: a plain string, a dict, an object with a text
\* attribute, an object with only a content attribute, anything else.
StrItem(s) == [t |-> "str", text |-> Some(s), content |-> None]
DictItem(text_opt, content_opt) == [t |-> "dict", text |-> text_opt, content |-> content_opt]
TextObjItem(text_opt, content_opt) ==
    [t |-> "obj_text", text |-> text_opt, content |-> content_opt]
ContentObjItem(content_opt) == [t |-> "obj_content", text |-> None, content |-> content_opt]
OtherItem == [t |-> "other", text |-> None, content |-> None]

\* `x or ""` for an optional string
OrEmpty(opt) == IF opt = None THEN <<>> ELSE opt[1]

\* lines 125-133
TextPiece(item) ==
    CASE item.t = "str" -> OrEmpty(item.text)
      [] item.t = "dict" ->
            IF OrEmpty(item.text) # <<>> THEN OrEmpty(item.text) ELSE OrEmpty(item.content)
      [] item.t = "obj_text" -> OrEmpty(item.text)
      [] item.t = "obj_content" -> OrEmpty(item.content)
      [] OTHER -> <<>>

RECURSIVE JoinPieces(_)
JoinPieces(items) ==
    IF items = <<>> THEN <<>> ELSE TextPiece(Head(items)) \o JoinPieces(Tail(items))

\* lines 117-137
MessageContentToText(mc) ==
    CASE mc.t = "none" -> <<>>
      [] mc.t = "str" -> mc.s
      [] mc.t = "list" -> JoinPieces(mc.items)
      [] OTHER -> mc.s

\* What one completion call can do: raise, answer without choices, or answer
\* with a first choice whose message carries some content.
Raises == [kind |-> "raise", mc |-> NoContent]
NoChoices == [kind |-> "nochoices", mc |-> NoContent]
Answers(mc) == [kind |-> "ok", mc |-> mc]

Responses(chunk) ==
    {Raises, NoChoices}
    \cup {Answers(mc) : mc \in
            {NoContent, StrContent(<<>>), StrContent(<<SP, NL>>), StrContent(<<"X">>),
             StrContent(chunk), ListContent(<<>>),
             ListContent(<<DictItem(None, None), StrItem(<<>>)>>),
             ListContent(<<StrItem(<<"X">>), DictItem(Some(<<"Y">>), None)>>)}}

Unset == None
ApiKeys == {Unset, Some(""), Some("testkey")}

\* PreconditionError without the size ceiling.
PreconditionError_NoSizeCheck(available, key, doc) ==
    IF ~available THEN Some("openai package not installed")
    ELSE IF key = Unset \/ key = Some("")
    THEN Some("OPENAI_API_KEY environment variable not set.")
    ELSE None

\* lines 14-28: the error raised before any call, if any
PreconditionError(available, key, doc) ==
    IF ~available THEN Some("openai package not installed")
    ELSE IF key = Unset \/ key = Some("")
    THEN Some("OPENAI_API_KEY environment variable not set.")
    ELSE IF Len(doc) > MAX_TOTAL_CHARS THEN Some("Document too large for AI formatting")
    ELSE None

\* ResponseFailure without the check for missing choices.
ResponseFailure_NoChoicesTolerated(resp) ==
    IF resp.kind = "raise" THEN Some("completion call raised") ELSE None

\* lines 72-75: the exception the call or the choices check raises, if any
ResponseFailure(resp) ==
    CASE resp.kind = "raise" -> Some("completion call raised")
      [] resp.kind = "nochoices" ->
            Some("AI returned no choices; formatted content unavailable.")
      [] OTHER -> None

\* ChunkOutput testing the text without strip().
ChunkOutput_EmptyOnly(formatted_text, chunk) ==
    IF formatted_text = <<>> THEN chunk ELSE formatted_text

\* lines 82-86
ChunkOutput(formatted_text, chunk) ==
    IF Strip(formatted_text) = <<>> THEN chunk ELSE formatted_text

Failure(prefix, cause) == Some([prefix |-> prefix, cause |-> cause])

\* Model identifiers, as strings of characters.
GPT5_PREFIX == <<"g", "p", "t", "-", "5">>
\* config.py line 21, and the default of the model parameter (line 12)
OPENAI_MODEL == GPT5_PREFIX \o <<"-", "n", "a", "n", "o">>
Models == {OPENAI_MODEL, <<"g", "p", "t", "-", "4", "o">>, <<"g", "p", "t">>}

\* Prompt numbering the chunks from zero.
Prompt_ZeroBased(i, chunk_list) ==
    [i |-> i - 1, total |-> Len(chunk_list), chunk |-> chunk_list[i]]

\* line 57: what varies in the prompt of the i-th call, the position marker
\* "(Chunk i/total)" and the chunk text; the instructions are fixed text
Prompt(i, chunk_list) ==
    [i |-> i, total |-> Len(chunk_list), chunk |-> chunk_list[i]]

\* CompletionArgs giving every model the older parameters.
CompletionArgs_AlwaysMaxTokens(model_id) ==
    [max_completion_tokens |-> None, max_tokens |-> Some(4096), temperature |-> Some(0)]

\* lines 58-70: the optional keyword arguments of the call (None = not passed)
CompletionArgs(model_id) ==
    IF StartsWith(model_id, GPT5_PREFIX)
    THEN [max_completion_tokens |-> Some(4096), max_tokens |-> None, temperature |-> None]
    ELSE [max_completion_tokens |-> None, max_tokens |-> Some(4096), temperature |-> Some(0)]

FormatInit ==
    /\ content \in StringsUpTo(DocChars, MaxDocLen)
    /\ model \in Models
    /\ openai_available \in BOOLEAN
    /\ api_key \in ApiKeys
    /\ fpc = "entry"
    /\ fchunks = <<>>
    /\ fi = 0
    /\ formatted_chunks = <<>>
    /\ calls = <<>>
    /\ fresult = None
    /\ ferror = None

\* lines 14-54: the precondition checks, the split, the empty document
FormatEnter ==
    /\ fpc = "entry"
    /\ LET err == PreconditionError(openai_available, api_key, content)
           split == SplitIntoChunks(content, CHUNK_MAX_CHARS)
       IN  IF err # None
           THEN /\ fpc' = "raised"
                /\ ferror' = Failure("", err[1])
                /\ UNCHANGED <<fchunks, fi, fresult>>
           ELSE IF split = <<>>
           THEN /\ fpc' = "returned"
                /\ fresult' = Some(<<>>)
                /\ UNCHANGED <<fchunks, fi, ferror>>
           ELSE /\ fpc' = "loop"
                /\ fchunks' = split
                /\ fi' = 1
                /\ UNCHANGED <<fresult, ferror>>
    /\ UNCHANGED <<content, model, openai_available, api_key, formatted_chunks, calls>>

\* CompletionCall asking again for a chunk whose answer was blank.
CompletionCall_RetryBlank ==
    /\ fpc = "loop"
    /\ fi <= Len(fchunks)
    /\ \E resp \in Responses(fchunks[fi]) :
          LET chunk == fchunks[fi]
              failure == ResponseFailure(resp)
              formatted_text == MessageContentToText(resp.mc)
          IN  /\ calls' = Append(calls, [i |-> fi, total |-> Len(fchunks), chunk |-> chunk,
                                         args |-> CompletionArgs(model), resp |-> resp])
              /\ IF failure # None
                 THEN /\ fpc' = "raised"
                      /\ ferror' = Failure("AI formatting failed: ", failure[1])
                      /\ UNCHANGED <<fi, formatted_chunks>>
                 ELSE IF Strip(formatted_text) = <<>>
                 THEN UNCHANGED <<fi, formatted_chunks, fpc, ferror>>
                 ELSE /\ formatted_chunks' = Append(formatted_chunks, formatted_text)
                      /\ fi' = fi + 1
                      /\ UNCHANGED <<fpc, ferror>>
    /\ UNCHANGED <<content, model, openai_available, api_key, fchunks, fresult>>

\* lines 56-89, one iteration: the call for chunk fi and what is done with
\* its response
CompletionCall ==
    /\ fpc = "loop"
    /\ fi <= Len(fchunks)
    /\ \E resp \in Responses(fchunks[fi]) :
          LET chunk == fchunks[fi]
              failure == ResponseFailure(resp)
          IN  /\ calls' = Append(calls, [i |-> Prompt(fi, fchunks).i,
                                         total |-> Prompt(fi, fchunks).total,
                                         chunk |-> Prompt(fi, fchunks).chunk,
                                         args |-> CompletionArgs(model),
                                         resp |-> resp])
              /\ IF failure # None
                 THEN /\ fpc' = "raised"
                      /\ ferror' = Failure("AI formatting failed: ", failure[1])
                      /\ UNCHANGED <<fi, formatted_chunks>>
                 ELSE /\ formatted_chunks' =
                            Append(formatted_chunks,
                                   ChunkOutput(MessageContentToText(resp.mc), chunk))
                      /\ fi' = fi + 1
                      /\ UNCHANGED <<fpc, ferror>>
    /\ UNCHANGED <<content, model, openai_available, api_key, fchunks, fresult>>

\* line 91
FormatReturn ==
    /\ fpc = "loop"
    /\ fi > Len(fchunks)
    /\ fresult' = Some(Join(formatted_chunks, NL))
    /\ fpc' = "returned"
    /\ UNCHANGED <<content, model, openai_available, api_key, fchunks, fi, formatted_chunks,
                   calls, ferror>>

-----------------------------------------------------------------------------
(* transcripts.py: languages, caption catalogs, payload decoding *)

\* config.py line 16
DEFAULT_TRANSCRIPT_LANGUAGES == <<"en", "en-US">>

RECURSIVE DedupeFrom(_, _, _)
DedupeFrom(values, seen, ordered) ==
    IF values = <<>> THEN ordered
    ELSE IF Head(values) = "" \/ Head(values) \in seen
    THEN DedupeFrom(Tail(values), seen, ordered)
    ELSE DedupeFrom(Tail(values), seen \cup {Head(values)}, Append(ordered, Head(values)))

\* lines 200-208
DedupePreserveOrder(values) == DedupeFrom(values, {}, <<>>)

\* NormalizeLanguages putting the defaults before the provided codes.
NormalizeLanguages_DefaultsFirst(langs_opt) ==
    LET provided == IF langs_opt = None THEN <<>> ELSE langs_opt[1]
        ordered == DedupePreserveOrder(DEFAULT_TRANSCRIPT_LANGUAGES \o provided)
    IN  IF ordered = <<>> THEN DEFAULT_TRANSCRIPT_LANGUAGES ELSE ordered

\* lines 71-74; the argument is None or Some(list)
NormalizeLanguages(langs_opt) ==
    LET provided == IF langs_opt = None THEN <<>> ELSE langs_opt[1]
        ordered == DedupePreserveOrder(provided \o DEFAULT_TRANSCRIPT_LANGUAGES)
    IN  IF ordered = <<>> THEN DEFAULT_TRANSCRIPT_LANGUAGES ELSE ordered

\* A descriptor is a dict with an optional "url" and an optional "ext".
Descriptor(url_opt, ext_opt) == [url |-> url_opt, ext |-> ext_opt]

\* The value a catalog holds under a language: None, one descriptor, or a
\* list of descriptors.
NoEntries == [kind |-> "none", ds |-> <<>>]
DictEntry(d) == [kind |-> "dict", ds |-> <<d>>]
ListEntry(ds) == [kind |-> "list", ds |-> ds]

\* Python truthiness of such a value (None, [] and {} are falsy).
Falsy(entries) ==
    \/ entries.kind = "none"
    \/ entries.kind = "list" /\ entries.ds = <<>>
    \/ entries.kind = "dict" /\ entries.ds[1] = Descriptor(None, None)

\* lines 139-144
EnsureList(entries) ==
    CASE entries.kind = "list" -> entries.ds
      [] entries.kind = "none" -> <<>>
      [] OTHER -> entries.ds

\* A catalog is a dict in insertion order: a sequence of <<language, entries>>
\* with distinct languages.  An absent key, None and {} all read as the empty
\* catalog <<>> (lines 125-127).
RECURSIVE Get(_, _)
Get(source, lang) ==
    IF source = <<>> THEN NoEntries
    ELSE IF Head(source)[1] = lang THEN Head(source)[2]
    ELSE Get(Tail(source), lang)

\* lines 124-136
OrderedCaptionSources(video_info) ==
    (IF video_info.requested_subtitles # <<>> THEN <<video_info.requested_subtitles>> ELSE <<>>)
    \o (IF video_info.subtitles # <<>> THEN <<video_info.subtitles>> ELSE <<>>)
    \o (IF video_info.automatic_captions # <<>> THEN <<video_info.automatic_captions>> ELSE <<>>)

\* str.replace("\n", " ")
RECURSIVE NewlinesToSpaces(_)
NewlinesToSpaces(s) ==
    IF s = <<>> THEN <<>>
    ELSE <<IF Head(s) = NL THEN SP ELSE Head(s)>> \o NewlinesToSpaces(Tail(s))

\* A parsed JSON payload is an object with a list of events, each event a
\* list of segment texts, or a value of another shape (here an array).
JsonObject(events) == [t |-> "object", events |-> events]
JsonArray == [t |-> "array", events |-> <<>>]

\* SegmentTexts keeping the segments that are empty after trimming.
RECURSIVE SegmentTexts_KeepsEmpty(_)
SegmentTexts_KeepsEmpty(segs) ==
    IF segs = <<>> THEN <<>>
    ELSE <<Strip(NewlinesToSpaces(Head(segs)))>> \o SegmentTexts_KeepsEmpty(Tail(segs))

\* lines 176-179: the texts kept from one event's segments
RECURSIVE SegmentTexts(_)
SegmentTexts(segs) ==
    IF segs = <<>> THEN <<>>
    ELSE LET chunk == Strip(NewlinesToSpaces(Head(segs)))
         IN  (IF chunk # <<>> THEN <<chunk>> ELSE <<>>) \o SegmentTexts(Tail(segs))

RECURSIVE EventTexts(_)
EventTexts(events) ==
    IF events = <<>> THEN <<>>
    ELSE SegmentTexts(Head(events)) \o EventTexts(Tail(events))

\* lines 173-180, for a payload that is an object
Json3PayloadToText(payload) == Strip(Join(EventTexts(payload.events), SP))

Digits == {"0", "1", "2", "3", "4", "5", "6", "7", "8", "9"}

\* line 183: ^\d{2}:\d{2}:\d{2}\.\d{3} -->
TimestampMatch(s) ==
    /\ Len(s) >= 17
    /\ \A i \in {1, 2, 4, 5, 7, 8, 10, 11, 12} : s[i] \in Digits
    /\ s[3] = ":" /\ s[6] = ":" /\ s[9] = "."
    /\ SubSeq(s, 13, 17) = <<SP, "-", "-", ">", SP>>

\* CueIndexMatch without the end anchor: ^\d+
CueIndexMatch_Unanchored(s) == s # <<>> /\ s[1] \in Digits

\* line 184: ^\d+$
CueIndexMatch(s) == s # <<>> /\ \A i \in 1 .. Len(s) : s[i] \in Digits

RECURSIVE KeptLines(_)
KeptLines(lines) ==
    IF lines = <<>> THEN <<>>
    ELSE LET stripped == Strip(Head(lines))
             dropped ==
                \/ stripped = <<>>
                \/ StartsWith(stripped, <<"W", "E", "B", "V", "T", "T">>)
                \/ StartsWith(stripped, <<"N", "O", "T", "E">>)
                \/ TimestampMatch(stripped)
                \/ CueIndexMatch(stripped)
         IN  (IF dropped THEN <<>> ELSE <<stripped>>) \o KeptLines(Tail(lines))

\* str.splitlines() for texts whose only line boundary is the newline: a
\* final newline ends the last line and opens no further one
RECURSIVE SplitLines(_)
SplitLines(raw_text) ==
    IF raw_text = <<>> THEN <<>>
    ELSE LET newlines == {i \in 1 .. Len(raw_text) : raw_text[i] = NL}
         IN  IF newlines = {} THEN <<raw_text>>
             ELSE LET first == CHOOSE i \in newlines : \A j \in newlines : i <= j
                  IN  <<SubSeq(raw_text, 1, first - 1)>>
                          \o SplitLines(SubSeq(raw_text, first + 1, Len(raw_text)))

\* lines 186-197, on the lines of raw_text (raw_text.splitlines())
StripCaptionMarkup(lines) == Strip(Join(KeptLines(lines), SP))

URLs == {"A", "B"}

\* What the provider serves under a URL.
ServedKinds == {"transport_error", "vtt", "json_array", "json3_blank", "json3"}

Nets == [URLs -> ServedKinds]

\* The bytes served, seen as JSON (None when json.loads fails) and as lines
\* of text.  The text of a JSON payload is abridged to one line.
PayloadJson(kind, url) ==
    CASE kind = "json3" ->
            Some(JsonObject(<<<<<<"h", "i", NL>>, <<SP>>>>, <<<<url>>>>>>))
      [] kind = "json3_blank" -> Some(JsonObject(<<<<<<NL>>, <<>>>>>>))
      [] kind = "json_array" -> Some(JsonArray)
      [] OTHER -> None

PayloadLines(kind, url) ==
    CASE kind = "vtt" ->
            << <<"W", "E", "B", "V", "T", "T">>,
               <<>>,
               <<"1">>,
               <<"0", "0", ":", "0", "0", ":", "0", "1", ".", "0", "0", "0",
                 SP, "-", "-", ">", SP,
                 "0", "0", ":", "0", "0", ":", "0", "2", ".", "0", "0", "0">>,
               <<"H", "i", SP, url>> >>
      [] kind = "json_array" -> << <<"[", "]">> >>
      [] kind = "json3_blank" -> << <<"{", "}">> >>
      [] OTHER -> << <<"{", url, "}">> >>

\* str.lower() on the format tags that occur
Lower(ext) == IF ext = "JSON3" THEN "json3" ELSE ext

\* What a call returns: a value (None or a text), or an exception.
Returned(value_opt) == [exc |-> None, value |-> value_opt]
Raised(type, msg) == [exc |-> Some([type |-> type, msg |-> msg]), value |-> None]

\* lines 147-170
DownloadCaptionEntry(entry, n) ==
    LET ext == Lower(IF entry.ext = None \/ entry.ext = Some("") THEN "json3" ELSE entry.ext[1])
    IN  IF entry.url = None \/ entry.url = Some("") THEN Returned(None)
        ELSE LET kind == n[entry.url[1]]
                 json == PayloadJson(kind, entry.url[1])
             IN  IF kind = "transport_error" THEN Returned(None)
                 ELSE IF ext = "json3"
                 THEN IF json = None THEN Returned(None)
                      ELSE IF json[1].t # "object"
                      THEN Raised("AttributeError", "'list' object has no attribute 'get'")
                      ELSE Returned(Some(Json3PayloadToText(json[1])))
                 ELSE Returned(Some(StripCaptionMarkup(PayloadLines(kind, entry.url[1]))))

\* A call yields text when it returns a non-empty string (`if text:`).
HasText(r) == r.exc = None /\ r.value # None /\ r.value[1] # <<>>

-----------------------------------------------------------------------------
(* _extract_caption_text(ydl, info, languages), one payload fetch per step *)

RECURSIVE EntriesOfLanguage(_, _)
EntriesOfLanguage(sources, lang) ==
    IF sources = <<>> THEN <<>>
    ELSE (IF Falsy(Get(Head(sources), lang)) THEN <<>>
          ELSE EnsureList(Get(Head(sources), lang)))
         \o EntriesOfLanguage(Tail(sources), lang)

RECURSIVE EntriesOfSource(_)
EntriesOfSource(source) ==
    IF source = <<>> THEN <<>>
    ELSE EnsureList(Head(source)[2]) \o EntriesOfSource(Tail(source))

\* PrimaryEntries with the two loops exchanged: catalogs outside.
RECURSIVE PrimaryEntries_CatalogFirst(_, _)
PrimaryEntries_CatalogFirst(sources, langs) ==
    IF sources = <<>> THEN <<>>
    ELSE LET RECURSIVE ByLang(_)
             ByLang(ls) ==
                IF ls = <<>> THEN <<>>
                ELSE (IF Falsy(Get(Head(sources), Head(ls))) THEN <<>>
                      ELSE EnsureList(Get(Head(sources), Head(ls))))
                     \o ByLang(Tail(ls))
         IN  ByLang(langs) \o PrimaryEntries_CatalogFirst(Tail(sources), langs)

\* lines 105-110: the descriptors the primary search visits, in order
RECURSIVE PrimaryEntries(_, _)
PrimaryEntries(sources, langs) ==
    IF langs = <<>> THEN <<>>
    ELSE EntriesOfLanguage(sources, Head(langs)) \o PrimaryEntries(sources, Tail(langs))

\* FallbackEntries walking the catalogs from the lowest priority up.
RECURSIVE FallbackEntries_LowPriorityFirst(_)
FallbackEntries_LowPriorityFirst(sources) ==
    IF sources = <<>> THEN <<>>
    ELSE FallbackEntries_LowPriorityFirst(Tail(sources)) \o EntriesOfSource(Head(sources))

\* FallbackEntries of a search that has no fallback pass.
FallbackEntries_None(sources) == <<>>

\* lines 115-117: the descriptors the fallback search visits, in order
RECURSIVE FallbackEntries(_)
FallbackEntries(sources) ==
    IF sources = <<>> THEN <<>>
    ELSE EntriesOfSource(Head(sources)) \o FallbackEntries(Tail(sources))

\* lines 105-121: every descriptor visit of one call, in order
SearchOrder(video_info, langs) ==
    LET sources == OrderedCaptionSources(video_info)
    IN  PrimaryEntries(sources, langs) \o FallbackEntries(sources)

RECURSIVE FirstText(_, _)
FirstText(entries, n) ==
    IF entries = <<>> THEN Returned(None)
    ELSE LET r == DownloadCaptionEntry(Head(entries), n)
         IN  IF r.exc # None THEN r
             ELSE IF HasText(r) THEN r
             ELSE FirstText(Tail(entries), n)

\* lines 100-121 as an operator, for _fetch_single_transcript
ExtractCaptionText(video_info, langs, n) == FirstText(SearchOrder(video_info, langs), n)

\* The inputs of the model: language arguments, descriptors, catalogs.
LanguageInputs ==
    {None, Some(<<>>), Some(<<"de">>), Some(<<"en-US", "", "de", "en-US">>)}

PreferenceLists == {NormalizeLanguages(l) : l \in LanguageInputs}

CatalogLanguages == {"en", "de"}

EntryChoices ==
    {DictEntry(Descriptor(Some("A"), Some("json3"))),
     DictEntry(Descriptor(Some("B"), None)),
     ListEntry(<<Descriptor(None, Some("json3")),
                 Descriptor(Some("A"), Some("vtt")),
                 Descriptor(Some("B"), Some("JSON3"))>>)}

Catalogs ==
    {<<>>}
    \cup {<<<<l, e>>>> : l \in CatalogLanguages, e \in EntryChoices}
    \cup {<<<<l1, e1>>, <<l2, e2>>>> :
            <<l1, l2>> \in {p \in CatalogLanguages \X CatalogLanguages : p[1] # p[2]},
            <<e1, e2>> \in EntryChoices \X EntryChoices}

VideoInfo(requested, subtitles, automatic) ==
    [requested_subtitles |-> requested, subtitles |-> subtitles,
     automatic_captions |-> automatic]

Infos ==
    {VideoInfo(c[1], c[2], c[3]) :
        c \in {t \in Catalogs \X Catalogs \X Catalogs :
                 Len(t[1]) + Len(t[2]) + Len(t[3]) <= MaxEntries}}

ResolveInit ==
    /\ info \in Infos
    /\ rlangs \in PreferenceLists
    /\ net \in Nets
    /\ rpc = "entry"
    /\ ridx = 0
    /\ fetched = <<>>
    /\ rresult = None

\* lines 101-103
ResolveEnter ==
    /\ rpc = "entry"
    /\ IF OrderedCaptionSources(info) = <<>>
       THEN rpc' = "done" /\ ridx' = ridx
       ELSE rpc' = "search" /\ ridx' = 1
    /\ UNCHANGED <<info, rlangs, net, fetched, rresult>>

\* lines 110-113 and 117-120: one _download_caption_entry call
TryEntry ==
    /\ rpc = "search"
    /\ ridx <= Len(SearchOrder(info, rlangs))
    /\ LET entry == SearchOrder(info, rlangs)[ridx]
           r == DownloadCaptionEntry(entry, net)
       IN  /\ fetched' = IF entry.url = None \/ entry.url = Some("") THEN fetched
                         ELSE Append(fetched, entry.url[1])
           /\ IF r.exc # None
              THEN rpc' = "raised" /\ UNCHANGED <<ridx, rresult>>
              ELSE IF HasText(r)
              THEN rpc' = "done" /\ rresult' = r.value /\ ridx' = ridx
              ELSE ridx' = ridx + 1 /\ UNCHANGED <<rpc, rresult>>
    /\ UNCHANGED <<info, rlangs, net>>

\* line 121
ResolveNotFound ==
    /\ rpc = "search"
    /\ ridx > Len(SearchOrder(info, rlangs))
    /\ rpc' = "done"
    /\ UNCHANGED <<info, rlangs, net, ridx, fetched, rresult>>

-----------------------------------------------------------------------------
(* fetch_transcripts(video_ids, languages), one video per step *)

VideoIds == {"v1", "v2"}

RECURSIVE ListsUpTo(_, _)
ListsUpTo(S, n) ==
    IF n = 0 THEN {<<>>}
    ELSE LET shorter == ListsUpTo(S, n - 1)
         IN  shorter \cup {Append(l, x) : l \in {t \in shorter : Len(t) = n - 1}, x \in S}

\* What ydl.extract_info can do for one video: raise the provider's
\* DownloadError, raise something else, return nothing, or return metadata.
MetaDownloadError(msg) == [k |-> "download_error", msg |-> msg, info |-> <<>>]
MetaError(msg) == [k |-> "error", msg |-> msg, info |-> <<>>]
MetaEmpty == [k |-> "empty", msg |-> "", info |-> <<>>]
MetaInfo(i) == [k |-> "info", msg |-> "", info |-> i]

SampleInfos ==
    {i \in Infos :
        Len(i.requested_subtitles) + Len(i.subtitles) + Len(i.automatic_captions) <= 1}

Metas ==
    {MetaDownloadError(m) : m \in {"", "Mock download error"}}
    \cup {MetaError("boom"), MetaEmpty}
    \cup {MetaInfo(i) : i \in SampleInfos}

\* Why one video has no transcript, or that it has one: what extract_info
\* did (line 61) and, given metadata, how the caption search ended (line 65).
Cause(meta, langs, n) ==
    IF meta.k # "info" THEN [k |-> meta.k, msg |-> meta.msg]
    ELSE LET r == ExtractCaptionText(meta.info, langs, n)
         IN  IF r.exc # None THEN [k |-> "search_error", msg |-> r.exc[1].msg]
             ELSE IF r.value # None /\ r.value[1] # <<>> THEN [k |-> "text", msg |-> ""]
             ELSE [k |-> "not_found", msg |-> ""]

\* FetchSingleTranscript returning whatever the search returned.
FetchSingleTranscript_NoTextCheck(meta, langs, n) ==
    CASE meta.k = "download_error" -> Raised("DownloadError", meta.msg)
      [] meta.k = "error" -> Raised("Exception", meta.msg)
      [] meta.k = "empty" -> Raised("TranscriptLookupError", "Unable to fetch video metadata")
      [] OTHER -> ExtractCaptionText(meta.info, langs, n)

\* lines 59-68
FetchSingleTranscript(meta, langs, n) ==
    CASE meta.k = "download_error" -> Raised("DownloadError", meta.msg)
      [] meta.k = "error" -> Raised("Exception", meta.msg)
      [] meta.k = "empty" -> Raised("TranscriptLookupError", "Unable to fetch video metadata")
      [] OTHER ->
            LET r == ExtractCaptionText(meta.info, langs, n)
            IN  IF r.exc # None THEN r
                ELSE IF HasText(r) THEN r
                ELSE Raised("TranscriptLookupError",
                            "Transcript unavailable in requested languages")

TranscriptResult(video_id, success, text_opt, error_opt) ==
    [video_id |-> video_id, success |-> success, text |-> text_opt, error |-> error_opt]

\* ResultFor without the `except DownloadError` clause.
ResultFor_NoDownloadErrorClause(video_id, r) ==
    IF r.exc = None THEN Some(TranscriptResult(video_id, TRUE, r.value, None))
    ELSE IF r.exc[1].type = "TranscriptLookupError"
    THEN Some(TranscriptResult(video_id, FALSE, None, Some(r.exc[1].msg)))
    ELSE Some(TranscriptResult(video_id, FALSE, None,
                               Some("Unexpected error: " \o r.exc[1].msg)))

\* ResultFor without the final `except Exception`.
ResultFor_NoCatchAll(video_id, r) ==
    IF r.exc = None THEN Some(TranscriptResult(video_id, TRUE, r.value, None))
    ELSE IF r.exc[1].type = "TranscriptLookupError"
    THEN Some(TranscriptResult(video_id, FALSE, None, Some(r.exc[1].msg)))
    ELSE IF r.exc[1].type = "DownloadError"
    THEN Some(TranscriptResult(video_id, FALSE, None,
                               Some("yt-dlp error: " \o r.exc[1].msg)))
    ELSE None

\* lines 40-55: the result appended for one video, or None if the exception
\* escapes the loop
ResultFor(video_id, r) ==
    IF r.exc = None THEN Some(TranscriptResult(video_id, TRUE, r.value, None))
    ELSE IF r.exc[1].type = "TranscriptLookupError"
    THEN Some(TranscriptResult(video_id, FALSE, None, Some(r.exc[1].msg)))
    ELSE IF r.exc[1].type = "DownloadError"
    THEN Some(TranscriptResult(video_id, FALSE, None,
                               Some("yt-dlp error: " \o r.exc[1].msg)))
    ELSE Some(TranscriptResult(video_id, FALSE, None,
                               Some("Unexpected error: " \o r.exc[1].msg)))

FetchInit ==
    /\ video_ids \in ListsUpTo(VideoIds, MaxVideos)
    /\ languages \in LanguageInputs
    /\ vi = 0
    /\ results = <<>>
    /\ lookups = <<>>
    /\ causes = <<>>
    /\ tpc = "entry"

\* lines 33-38
FetchEnter ==
    /\ tpc = "entry"
    /\ tpc' = "loop"
    /\ vi' = 1
    /\ UNCHANGED <<video_ids, languages, results, lookups, causes>>

\* lines 39-55, one iteration: the metadata lookup, the caption search and
\* the result recorded for video vi
FetchVideo ==
    /\ tpc = "loop"
    /\ vi <= Len(video_ids)
    /\ \E meta \in Metas, n \in Nets :
          LET video_id == video_ids[vi]
              r == FetchSingleTranscript(meta, NormalizeLanguages(languages), n)
              result == ResultFor(video_id, r)
          IN  /\ lookups' = Append(lookups, video_id)
              /\ causes' = Append(causes, Cause(meta, NormalizeLanguages(languages), n))
              /\ IF result = None
                 THEN tpc' = "raised" /\ UNCHANGED <<vi, results>>
                 ELSE /\ results' = Append(results, result[1])
                      /\ vi' = vi + 1
                      /\ tpc' = tpc
    /\ UNCHANGED <<video_ids, languages>>

\* line 56
FetchReturn ==
    /\ tpc = "loop"
    /\ vi > Len(video_ids)
    /\ tpc' = "done"
    /\ UNCHANGED <<video_ids, languages, vi, results, lookups, causes>>

-----------------------------------------------------------------------------
(* _message_content_to_text(message_content), one call *)

\* Longest list content passed in.
MaxItems == 2

OptionalTexts == {None, Some(<<>>), Some(<<"t">>)}
OptionalContents == {None, Some(<<>>), Some(<<"c">>)}

ContentItems ==
    {StrItem(<<>>), StrItem(<<"s">>), OtherItem}
    \cup {DictItem(t, c) : t \in OptionalTexts, c \in OptionalContents}
    \cup {TextObjItem(t, c) : t \in OptionalTexts, c \in OptionalContents}
    \cup {ContentObjItem(c) : c \in OptionalContents}

MessageContents ==
    {NoContent, OtherContent(<<"7">>)}
    \cup {StrContent(str) : str \in StringsUpTo({"a", SP}, 2)}
    \cup {ListContent(items) : items \in ListsUpTo(ContentItems, MaxItems)}

ContentInit ==
    /\ fn = "_message_content_to_text"
    /\ arg \in MessageContents
    /\ ret = None

\* lines 117-137
MessageContentToTextCall ==
    /\ fn = "_message_content_to_text"
    /\ ret = None
    /\ ret' = Some(MessageContentToText(arg))
    /\ UNCHANGED <<fn, arg>>

-----------------------------------------------------------------------------
(* _json3_payload_to_text(payload), one call *)

\* Most segments in one event.
MaxSegs == 2

Hello == <<"H", "e", "l", "l", "o">>
World == <<"w", "o", "r", "l", "d">>

\* The utf8 texts of segments ("" also stands for a segment without one).
SegmentSamples ==
    {<<>>, <<"a">>, <<NL>>, <<SP, "b", NL>>, <<"c", NL, NL, "d">>}

\* An event is the list of its segments' texts (none for an event without
\* segs); a payload holds up to two events.
SampleEvents == ListsUpTo(SegmentSamples, MaxSegs)

Json3Payloads ==
    {JsonObject(<<>>), JsonObject(<<<<Hello, World>>>>)}
    \cup {JsonObject(<<e>>) : e \in SampleEvents}
    \cup {JsonObject(<<e1, e2>>) : e1 \in SampleEvents, e2 \in SampleEvents}

Json3Init ==
    /\ fn = "_json3_payload_to_text"
    /\ arg \in Json3Payloads
    /\ ret = None

\* lines 173-180
Json3PayloadToTextCall ==
    /\ fn = "_json3_payload_to_text"
    /\ ret = None
    /\ ret' = Some(Json3PayloadToText(arg))
    /\ UNCHANGED <<fn, arg>>

-----------------------------------------------------------------------------
(* _strip_caption_markup(raw_text), one call *)

\* Most lines in a sampled payload.
MaxLines == 3

HeaderLine == <<"W", "E", "B", "V", "T", "T">>
TimestampLine ==
    <<"0", "0", ":", "0", "0", ":", "0", "1", ".", "0", "0", "0", SP, "-", "-", ">", SP,
      "0", "0", ":", "0", "0", ":", "0", "2", ".", "0", "0", "0">>
HiThere == <<"H", "i", SP, "t", "h", "e", "r", "e">>

\* Lines of a subtitle file: markup, content, and lines close to markup.
LineSamples ==
    {HeaderLine, TimestampLine, <<"1">>, HiThere, <<>>, <<SP, TAB>>,
     <<SP, "4", "2", SP>>, <<"4", "a">>, <<SP, "N", "O", "T", "E", "S">>,
     SubSeq(TimestampLine, 1, 16), <<TAB, "o", "k", SP>>}

RawTexts ==
    {Join(<<HeaderLine, <<>>, <<"1">>, TimestampLine, HiThere>>, NL) \o <<NL>>}
    \cup {Join(lines, NL) : lines \in ListsUpTo(LineSamples, MaxLines)}

StripInit ==
    /\ fn = "_strip_caption_markup"
    /\ arg \in RawTexts
    /\ ret = None

\* lines 186-197
StripCaptionMarkupCall ==
    /\ fn = "_strip_caption_markup"
    /\ ret = None
    /\ ret' = Some(StripCaptionMarkup(SplitLines(arg)))
    /\ UNCHANGED <<fn, arg>>

-----------------------------------------------------------------------------
(* _normalize_languages(languages), one call *)

\* Longest list of codes passed in.
MaxLangs == 3

LanguageCodes == {"", "en", "en-US", "de"}

LanguageArguments == {None} \cup {Some(l) : l \in ListsUpTo(LanguageCodes, MaxLangs)}

NormalizeInit ==
    /\ fn = "_normalize_languages"
    /\ arg \in LanguageArguments
    /\ ret = None

\* lines 71-74
NormalizeLanguagesCall ==
    /\ fn = "_normalize_languages"
    /\ ret = None
    /\ ret' = Some(NormalizeLanguages(arg))
    /\ UNCHANGED <<fn, arg>>

-----------------------------------------------------------------------------
(* _build_ytdlp_options(languages), one call *)

\* What os.getenv gives for a cookie variable: None when unset, else its
\* value, which may be empty.
CookieFileValues == {Unset, Some(""), Some("cookies.txt")}
CookieBrowserValues == {Unset, Some(""), Some("firefox"), Some("chrome")}

\* BuildYtdlpOptions testing the two variables independently.
BuildYtdlpOptions_BothCookies(langs, cookies_file, cookies_browser) ==
    [subtitleslangs |-> DedupePreserveOrder(langs \o DEFAULT_TRANSCRIPT_LANGUAGES),
     subtitlesformat |-> "json3",
     skip_download |-> TRUE,
     cookiefile |-> IF cookies_file \notin {Unset, Some("")} THEN cookies_file ELSE None,
     cookiesfrombrowser |->
        IF cookies_browser \notin {Unset, Some("")} THEN cookies_browser ELSE None]

\* lines 77-97: the options, with the two cookie keys None when absent
BuildYtdlpOptions(langs, cookies_file, cookies_browser) ==
    [subtitleslangs |-> DedupePreserveOrder(langs \o DEFAULT_TRANSCRIPT_LANGUAGES),
     subtitlesformat |-> "json3",
     skip_download |-> TRUE,
     cookiefile |-> IF cookies_file \notin {Unset, Some("")} THEN cookies_file ELSE None,
     cookiesfrombrowser |->
        IF cookies_file \notin {Unset, Some("")} THEN None
        ELSE IF cookies_browser \notin {Unset, Some("")} THEN cookies_browser
        ELSE None]

\* The argument and the two environment variables of one call.
OptionInputs ==
    [languages : ListsUpTo(LanguageCodes, MaxLangs),
     cookies_file : CookieFileValues,
     cookies_browser : CookieBrowserValues]

OptionsInit ==
    /\ fn = "_build_ytdlp_options"
    /\ arg \in OptionInputs
    /\ ret = None

\* lines 77-97
BuildYtdlpOptionsCall ==
    /\ fn = "_build_ytdlp_options"
    /\ ret = None
    /\ ret' = Some(BuildYtdlpOptions(arg.languages, arg.cookies_file, arg.cookies_browser))
    /\ UNCHANGED <<fn, arg>>

-----------------------------------------------------------------------------
(* cli.py, main from line 98 on: the creation of the document, the
   formatting question, the reformatting pass, the upload *)

\* The IDs the Drive service can give to a new document.
DocIds == {"d1", "d2"}

\* What create_google_doc can do: return the new ID (doc.py line 106) or
\* raise RuntimeError (doc.py lines 104-105).
CreateOutcomes == DocIds \cup {"RuntimeError"}

\* The exception that leaves the cleanup handler letting the failed delete's
\* exception through.
RaisedAfterCleanup_DeleteErrorEscapes(write_error, delete_ok) ==
    IF delete_ok THEN write_error ELSE "delete: Exception"

\* lines 122-127: the delete's exception is swallowed by `except Exception`
\* and the bare `raise` re-raises the exception being handled
RaisedAfterCleanup(write_error, delete_ok) == write_error

\* What the user does at the question: an answer, or the end of the input.
PromptAnswers == {"y", "yes", "n", "no", "", "eof"}

\* lines 167-176 with default = False: the value returned, or None when
\* input() raises
PromptYesNo(answer) ==
    CASE answer = "eof" -> None
      [] answer = "" -> Some(FALSE)
      [] answer \in {"y", "yes"} -> Some(TRUE)
      [] OTHER -> Some(FALSE)

\* lines 103-107
UseAi(answer) == IF PromptYesNo(answer) = None THEN FALSE ELSE PromptYesNo(answer)[1]

\* BodyAfterFormat losing the body when the pass fails.
BodyAfterFormat_LostOnFailure(body, outcome, result) ==
    IF outcome = "returned" THEN result[1] ELSE <<>>

\* lines 110-116: doc_body after the try/except around the pass
BodyAfterFormat(body, outcome, result) ==
    IF outcome = "returned" THEN result[1] ELSE body

\* What write_doc_content can do: succeed, raise RuntimeError (lines 123-131),
\* raise anything else.
WriteOutcomes == {"ok", "RuntimeError", "other"}

MainInit ==
    /\ doc_body \in StringsUpTo(DocChars, MaxDocLen) \ {<<>>}
    /\ unformatted = doc_body
    /\ use_ai = FALSE
    /\ mpc = "create"
    /\ write_calls = <<>>
    /\ doc_deleted = FALSE
    /\ doc_id = None
    /\ doc_calls = <<>>
    /\ main_error = None
    /\ openai_available \in BOOLEAN
    /\ api_key \in ApiKeys
    /\ model = OPENAI_MODEL
    /\ content = <<>> /\ fpc = "idle" /\ fchunks = <<>> /\ fi = 0
    /\ formatted_chunks = <<>> /\ calls = <<>> /\ fresult = None /\ ferror = None

\* lines 98-101: create_google_doc returns the ID or raises out of main
MainCreate ==
    /\ mpc = "create"
    /\ \E outcome \in CreateOutcomes :
          /\ doc_calls' = Append(doc_calls, [op |-> "create", id |-> None,
                                             ok |-> outcome \in DocIds])
          /\ doc_id' = IF outcome \in DocIds THEN Some(outcome) ELSE None
          /\ mpc' = IF outcome \in DocIds THEN "ask" ELSE "aborted"
          /\ main_error' = IF outcome \in DocIds THEN None
                           ELSE Some("create: RuntimeError")
    /\ UNCHANGED <<doc_body, unformatted, use_ai, write_calls, doc_deleted, formatVars>>

\* lines 103-109
MainAsk ==
    /\ mpc = "ask"
    /\ \E answer \in PromptAnswers :
          /\ use_ai' = UseAi(answer)
          /\ mpc' = IF UseAi(answer) THEN "format" ELSE "write"
    /\ UNCHANGED <<doc_body, unformatted, write_calls, doc_deleted, formatVars>>
    /\ UNCHANGED <<doc_id, doc_calls, main_error>>

\* line 112: the call format_document_with_ai(doc_body, model=config.OPENAI_MODEL)
MainCallFormat ==
    /\ mpc = "format"
    /\ content' = doc_body
    /\ fpc' = "entry"
    /\ mpc' = "formatting"
    /\ UNCHANGED <<doc_body, unformatted, use_ai, write_calls, doc_deleted>>
    /\ UNCHANGED <<doc_id, doc_calls, main_error>>
    /\ UNCHANGED <<model, openai_available, api_key, fchunks, fi, formatted_chunks,
                   calls, fresult, ferror>>

\* lines 112-116: the pass returned or raised
MainFormatDone ==
    /\ mpc = "formatting"
    /\ fpc \in {"returned", "raised"}
    /\ doc_body' = BodyAfterFormat(doc_body, fpc, fresult)
    /\ mpc' = "write"
    /\ UNCHANGED <<unformatted, use_ai, write_calls, doc_deleted, formatVars>>
    /\ UNCHANGED <<doc_id, doc_calls, main_error>>

\* lines 117-130: the upload, and the cleanup when it raises RuntimeError
MainWrite ==
    /\ mpc = "write"
    /\ write_calls' = Append(write_calls, doc_body)
    /\ \E outcome \in WriteOutcomes, delete_ok \in BOOLEAN :
          /\ mpc' = IF outcome = "ok" THEN "done" ELSE "aborted"
          /\ doc_deleted' = (outcome = "RuntimeError" /\ delete_ok)
          /\ doc_calls' =
                doc_calls
                   \o <<[op |-> "write", id |-> doc_id, ok |-> outcome = "ok"]>>
                   \o (IF outcome = "RuntimeError"
                       THEN <<[op |-> "delete", id |-> doc_id, ok |-> delete_ok]>>
                       ELSE <<>>)
          /\ main_error' =
                CASE outcome = "ok" -> None
                  [] outcome = "RuntimeError" ->
                        Some(RaisedAfterCleanup("write: RuntimeError", delete_ok))
                  [] OTHER -> Some("write: other")
    /\ UNCHANGED <<doc_body, unformatted, use_ai, doc_id, formatVars>>

-----------------------------------------------------------------------------
(* Idle values of the components a specification does not run *)

FormatIdle ==
    /\ content = <<>> /\ model = <<>> /\ openai_available = FALSE /\ api_key = None
    /\ fpc = "idle" /\ fchunks = <<>> /\ fi = 0 /\ formatted_chunks = <<>>
    /\ calls = <<>> /\ fresult = None /\ ferror = None

ResolveIdle ==
    /\ info = <<>> /\ rlangs = <<>> /\ net = <<>> /\ rpc = "idle" /\ ridx = 0
    /\ fetched = <<>> /\ rresult = None

FetchIdle ==
    /\ video_ids = <<>> /\ languages = None /\ vi = 0 /\ results = <<>>
    /\ lookups = <<>> /\ causes = <<>> /\ tpc = "idle"

ChunkIdle ==
    /\ text = <<>> /\ chunk_size = 1 /\ pos = 0 /\ chunks = <<>> /\ spans = <<>>
    /\ cpc = "idle"

PureIdle == fn = "idle" /\ arg = <<>> /\ ret = <<>>

MainIdle ==
    /\ doc_body = <<>> /\ unformatted = <<>> /\ use_ai = FALSE /\ mpc = "idle"
    /\ write_calls = <<>> /\ doc_deleted = FALSE
    /\ doc_id = None /\ doc_calls = <<>> /\ main_error = None

-----------------------------------------------------------------------------
(* The chunker on its own *)

InitChunk == ChunkInit /\ FormatIdle /\ ResolveIdle /\ FetchIdle /\ PureIdle /\ MainIdle

NextChunk ==
    \/ ChunkEnter /\ UNCHANGED <<formatVars, resolveVars, fetchVars, pureVars, mainVars>>
    \/ ChunkStep /\ UNCHANGED <<formatVars, resolveVars, fetchVars, pureVars, mainVars>>
    \/ ChunkReturn /\ UNCHANGED <<formatVars, resolveVars, fetchVars, pureVars, mainVars>>

SpecChunk == InitChunk /\ [][NextChunk]_vars

-----------------------------------------------------------------------------
(* The reformatting pass on its own *)

InitFormat == FormatInit /\ ChunkIdle /\ ResolveIdle /\ FetchIdle /\ PureIdle /\ MainIdle

NextFormat ==
    \/ FormatEnter /\ UNCHANGED <<chunkVars, resolveVars, fetchVars, pureVars, mainVars>>
    \/ CompletionCall /\ UNCHANGED <<chunkVars, resolveVars, fetchVars, pureVars, mainVars>>
    \/ FormatReturn /\ UNCHANGED <<chunkVars, resolveVars, fetchVars, pureVars, mainVars>>

SpecFormat == InitFormat /\ [][NextFormat]_vars

-----------------------------------------------------------------------------
(* The language normalisation on its own *)

InitNormalize ==
    NormalizeInit /\ ChunkIdle /\ FormatIdle /\ ResolveIdle /\ FetchIdle /\ MainIdle

NextNormalize ==
    NormalizeLanguagesCall
        /\ UNCHANGED <<chunkVars, formatVars, resolveVars, fetchVars, mainVars>>

SpecNormalize == InitNormalize /\ [][NextNormalize]_vars

-----------------------------------------------------------------------------
(* main from the creation of the document on, with the reformatting pass *)

InitMain == MainInit /\ ChunkIdle /\ ResolveIdle /\ FetchIdle /\ PureIdle

NextMain ==
    \/ MainCreate /\ UNCHANGED <<chunkVars, resolveVars, fetchVars, pureVars>>
    \/ MainAsk /\ UNCHANGED <<chunkVars, resolveVars, fetchVars, pureVars>>
    \/ MainCallFormat /\ UNCHANGED <<chunkVars, resolveVars, fetchVars, pureVars>>
    \/ FormatEnter /\ UNCHANGED <<chunkVars, resolveVars, fetchVars, pureVars, mainVars>>
    \/ CompletionCall /\ UNCHANGED <<chunkVars, resolveVars, fetchVars, pureVars, mainVars>>
    \/ FormatReturn /\ UNCHANGED <<chunkVars, resolveVars, fetchVars, pureVars, mainVars>>
    \/ MainFormatDone /\ UNCHANGED <<chunkVars, resolveVars, fetchVars, pureVars>>
    \/ MainWrite /\ UNCHANGED <<chunkVars, resolveVars, fetchVars, pureVars>>

SpecMain == InitMain /\ [][NextMain]_vars

-----------------------------------------------------------------------------
(* The normalisation of response content on its own *)

InitContent ==
    ContentInit /\ ChunkIdle /\ FormatIdle /\ ResolveIdle /\ FetchIdle /\ MainIdle

NextContent ==
    MessageContentToTextCall
        /\ UNCHANGED <<chunkVars, formatVars, resolveVars, fetchVars, mainVars>>

SpecContent == InitContent /\ [][NextContent]_vars

-----------------------------------------------------------------------------
(* The decoding of structured payloads on its own *)

InitJson3 ==
    Json3Init /\ ChunkIdle /\ FormatIdle /\ ResolveIdle /\ FetchIdle /\ MainIdle

NextJson3 ==
    Json3PayloadToTextCall
        /\ UNCHANGED <<chunkVars, formatVars, resolveVars, fetchVars, mainVars>>

SpecJson3 == InitJson3 /\ [][NextJson3]_vars

-----------------------------------------------------------------------------
(* The decoding of subtitle markup on its own *)

InitStrip ==
    StripInit /\ ChunkIdle /\ FormatIdle /\ ResolveIdle /\ FetchIdle /\ MainIdle

NextStrip ==
    StripCaptionMarkupCall
        /\ UNCHANGED <<chunkVars, formatVars, resolveVars, fetchVars, mainVars>>

SpecStrip == InitStrip /\ [][NextStrip]_vars

-----------------------------------------------------------------------------
(* The provider options on their own *)

InitOptions ==
    OptionsInit /\ ChunkIdle /\ FormatIdle /\ ResolveIdle /\ FetchIdle /\ MainIdle

NextOptions ==
    BuildYtdlpOptionsCall
        /\ UNCHANGED <<chunkVars, formatVars, resolveVars, fetchVars, mainVars>>

SpecOptions == InitOptions /\ [][NextOptions]_vars

-----------------------------------------------------------------------------
(* The caption search on its own *)

InitResolve == ResolveInit /\ ChunkIdle /\ FormatIdle /\ FetchIdle /\ PureIdle /\ MainIdle

NextResolve ==
    \/ ResolveEnter /\ UNCHANGED <<chunkVars, formatVars, fetchVars, pureVars, mainVars>>
    \/ TryEntry /\ UNCHANGED <<chunkVars, formatVars, fetchVars, pureVars, mainVars>>
    \/ ResolveNotFound /\ UNCHANGED <<chunkVars, formatVars, fetchVars, pureVars, mainVars>>

SpecResolve == InitResolve /\ [][NextResolve]_vars

-----------------------------------------------------------------------------
(* The transcript fetcher on its own *)

InitFetch == FetchInit /\ ChunkIdle /\ FormatIdle /\ ResolveIdle /\ PureIdle /\ MainIdle

NextFetch ==
    \/ FetchEnter /\ UNCHANGED <<chunkVars, formatVars, resolveVars, pureVars, mainVars>>
    \/ FetchVideo /\ UNCHANGED <<chunkVars, formatVars, resolveVars, pureVars, mainVars>>
    \/ FetchReturn /\ UNCHANGED <<chunkVars, formatVars, resolveVars, pureVars, mainVars>>

SpecFetch == InitFetch /\ [][NextFetch]_vars

-----------------------------------------------------------------------------
(* One call of either unit of work: fetch_transcripts or
   format_document_with_ai *)

InitCalls == InitFetch \/ InitFormat

NextCalls ==
    \/ FetchEnter /\ UNCHANGED <<chunkVars, formatVars, resolveVars, pureVars, mainVars>>
    \/ FetchVideo /\ UNCHANGED <<chunkVars, formatVars, resolveVars, pureVars, mainVars>>
    \/ FetchReturn /\ UNCHANGED <<chunkVars, formatVars, resolveVars, pureVars, mainVars>>
    \/ FormatEnter /\ UNCHANGED <<chunkVars, resolveVars, fetchVars, pureVars, mainVars>>
    \/ CompletionCall /\ UNCHANGED <<chunkVars, resolveVars, fetchVars, pureVars, mainVars>>
    \/ FormatReturn /\ UNCHANGED <<chunkVars, resolveVars, fetchVars, pureVars, mainVars>>

SpecCalls == InitCalls /\ [][NextCalls]_vars

-----------------------------------------------------------------------------
(* One call that runs to its end: of _split_into_chunks step by step, or of
   format_document_with_ai with the model main passes (cli.py line 112). The
   code is sequential and nothing suspends it, so a step that can be taken
   is taken. *)

InitSplit == InitChunk \/ (InitFormat /\ model = OPENAI_MODEL)

NextSplit ==
    \/ ChunkEnter /\ UNCHANGED <<formatVars, resolveVars, fetchVars, pureVars, mainVars>>
    \/ ChunkStep /\ UNCHANGED <<formatVars, resolveVars, fetchVars, pureVars, mainVars>>
    \/ ChunkReturn /\ UNCHANGED <<formatVars, resolveVars, fetchVars, pureVars, mainVars>>
    \/ FormatEnter /\ UNCHANGED <<chunkVars, resolveVars, fetchVars, pureVars, mainVars>>
    \/ CompletionCall /\ UNCHANGED <<chunkVars, resolveVars, fetchVars, pureVars, mainVars>>
    \/ FormatReturn /\ UNCHANGED <<chunkVars, resolveVars, fetchVars, pureVars, mainVars>>

SpecSplit == InitSplit /\ [][NextSplit]_vars /\ WF_vars(NextSplit)

-----------------------------------------------------------------------------
(* Properties of _split_into_chunks *)

\* s.split(): the maximal runs of non-whitespace characters, in order
RECURSIVE WordsFrom(_, _, _)
WordsFrom(s, i, cur) ==
    LET flush == IF cur = <<>> THEN <<>> ELSE <<cur>>
    IN  IF i > Len(s) THEN flush
        ELSE IF s[i] \in Whitespace THEN flush \o WordsFrom(s, i + 1, <<>>)
        ELSE WordsFrom(s, i + 1, Append(cur, s[i]))

Words(s) == WordsFrom(s, 1, <<>>)

RECURSIVE Without(_, _)
Without(s, drop) ==
    IF s = <<>> THEN <<>>
    ELSE IF Head(s) \in drop THEN Without(Tail(s), drop)
    ELSE <<Head(s)>> \o Without(Tail(s), drop)

RECURSIVE Concat(_)
Concat(parts) == IF parts = <<>> THEN <<>> ELSE Head(parts) \o Concat(Tail(parts))

\* C3: for a non-empty text and chunk size N >= 1 every chunk emitted has a
\* length between 1 and N: none is empty and none exceeds N.
C3_ChunkLengths ==
    text # <<>> =>
        \A i \in 1 .. Len(chunks) : 1 <= Len(chunks[i]) /\ Len(chunks[i]) <= chunk_size

C3_Witness ==
    /\ cpc = "done"
    /\ Len(chunks) >= 2
    /\ \E i \in 1 .. Len(chunks) : Len(chunks[i]) = chunk_size /\ chunk_size >= 2
    /\ \E i \in 1 .. Len(chunks) : Len(chunks[i]) < chunk_size

\* A chunk boundary that falls between two non-whitespace characters: only a
\* hard split at exactly pos + chunk_size produces one.
MidTokenCut(i) ==
    LET split_at == spans[i][2]
    IN  /\ split_at < Len(text)
        /\ text[split_at] \notin Whitespace
        /\ text[split_at + 1] \notin Whitespace

NoMidTokenCut == \A i \in 1 .. Len(spans) : ~MidTokenCut(i)

\* C4 as stated: joining the chunks with one separator and collapsing
\* whitespace always gives back the words of the text.
C4_WordsAlwaysPreserved ==
    (cpc = "done" /\ text # <<>>) => Words(Join(chunks, NL)) = Words(text)

\* C4 amended: the words are reproduced exactly when no chunk boundary falls
\* between two non-whitespace characters; a hard split inside a token splits
\* that token, and even then the non-whitespace characters are all kept, once
\* each and in order.
C4_WordsPreservedUnlessHardSplit ==
    (cpc = "done" /\ text # <<>>) =>
        /\ NoMidTokenCut <=> (Words(Join(chunks, NL)) = Words(text))
        /\ Without(Join(chunks, NL), Whitespace) = Without(text, Whitespace)

C4_Witness ==
    /\ cpc = "done"
    /\ Len(chunks) >= 2
    /\ NoMidTokenCut
    /\ Len(Words(text)) >= 2
    /\ \E w \in 1 .. Len(Words(text)) : Len(Words(text)[w]) >= 2

\* C5: the chunks are contiguous substrings of the text, left to right and
\* without overlap, the first starting at 0; every character between two
\* chunks or after the last one is a newline or a space; so removing all
\* newlines and spaces from the text and from the concatenated chunks gives
\* the same string.
C5_ChunksCoverText ==
    /\ Len(spans) = Len(chunks)
    /\ \A i \in 1 .. Len(chunks) :
          /\ 0 <= spans[i][1] /\ spans[i][1] < spans[i][2] /\ spans[i][2] <= Len(text)
          /\ chunks[i] = SubSeq(text, spans[i][1] + 1, spans[i][2])
          /\ i = 1 => spans[i][1] = 0
          /\ i > 1 =>
                /\ spans[i - 1][2] <= spans[i][1]
                /\ \A k \in spans[i - 1][2] .. (spans[i][1] - 1) : text[k + 1] \in {NL, SP}
    /\ cpc = "done" =>
          /\ text # <<>> => chunks # <<>>
          /\ chunks # <<>> =>
                \A k \in spans[Len(spans)][2] .. (Len(text) - 1) : text[k + 1] \in {NL, SP}
          /\ Without(Concat(chunks), {NL, SP}) = Without(text, {NL, SP})

C5_Witness ==
    /\ cpc = "done"
    /\ Len(chunks) >= 2
    /\ spans[2][1] - spans[1][2] >= 1
    /\ spans[Len(spans)][2] < Len(text)

-----------------------------------------------------------------------------
(* Properties of format_document_with_ai *)

IsBlank(s) == \A i \in 1 .. Len(s) : s[i] \in Whitespace

\* The call for chunk j came back with a first choice whose normalized
\* content is empty or whitespace-only.
BlankAnswer(j) ==
    /\ calls[j].resp.kind = "ok"
    /\ IsBlank(MessageContentToText(calls[j].resp.mc))

\* C8: a chunk whose normalized completion content is empty or
\* whitespace-only is output as the original chunk text, and that call does
\* not make the function raise; a single-chunk document is then returned as
\* its chunk.
C8_BlankAnswerKeepsChunk ==
    /\ \A j \in 1 .. Len(calls) :
          BlankAnswer(j) =>
             /\ j <= Len(formatted_chunks)
             /\ formatted_chunks[j] = fchunks[j]
             /\ ~(fpc = "raised" /\ j = Len(calls))
    /\ (fpc = "returned" /\ Len(calls) = 1 /\ BlankAnswer(1)) => fresult = Some(fchunks[1])

C8_Witness ==
    /\ fpc = "returned"
    /\ Len(fchunks) = 1
    /\ Len(calls) = 1
    /\ calls[1].resp = Answers(StrContent(<<SP, NL>>))
    /\ fresult = Some(fchunks[1])

PreconditionFails ==
    \/ ~openai_available
    \/ api_key \in {Unset, Some("")}
    \/ Len(content) > MAX_TOTAL_CHARS

\* C9: when the client library is unavailable, no API key is configured or
\* the document is longer than the ceiling, the function raises without ever
\* issuing a completion call and returns nothing.
C9_PreconditionsBeforeAnyCall ==
    PreconditionFails =>
        /\ calls = <<>>
        /\ fpc \in {"entry", "raised"}
        /\ fresult = None
        /\ fpc = "raised" => ferror # None

C9_Witness ==
    /\ fpc = "raised"
    /\ openai_available
    /\ api_key = Some("testkey")
    /\ Len(content) > MAX_TOTAL_CHARS
    /\ ferror = Failure("", "Document too large for AI formatting")

\* C10: if the call for chunk j raises or answers without choices, the
\* function ends with the wrapped failure 'AI formatting failed: ...',
\* returns nothing (not the outputs of chunks 1..j-1), and call j is the last
\* call issued.
C10_FailedChunkFailsDocument ==
    \A j \in 1 .. Len(calls) :
        calls[j].resp.kind \in {"raise", "nochoices"} =>
           /\ fpc = "raised"
           /\ ferror # None
           /\ ferror[1].prefix = "AI formatting failed: "
           /\ ferror[1].cause =
                 (IF calls[j].resp.kind = "nochoices"
                  THEN "AI returned no choices; formatted content unavailable."
                  ELSE "completion call raised")
           /\ fresult = None
           /\ Len(calls) = j
           /\ calls[j].i = j

C10_Witness ==
    /\ fpc = "raised"
    /\ Len(fchunks) = 3
    /\ Len(calls) = 2
    /\ Len(formatted_chunks) = 1
    /\ calls[2].resp = NoChoices
    /\ fresult = None

-----------------------------------------------------------------------------
(* Properties of fetch_transcripts *)

\* C1: fetch_transcripts records exactly one result per input ID, in input
\* order, result i carrying ID i, whatever happens to each video; no outcome
\* of a video ends the loop early, so at the return there are as many
\* results as IDs.
C1_OneResultPerVideoInOrder ==
    /\ tpc \in {"entry", "loop", "done"}
    /\ Len(results) = (IF tpc = "entry" THEN 0 ELSE vi - 1)
    /\ Len(results) <= Len(video_ids)
    /\ \A i \in 1 .. Len(results) : results[i].video_id = video_ids[i]
    /\ tpc = "done" => Len(results) = Len(video_ids)

C1_Witness ==
    /\ tpc = "done"
    /\ Len(video_ids) = 2
    /\ Len(results) = 2
    /\ ~results[1].success
    /\ results[1].error = Some("Unexpected error: boom")
    /\ results[2].success

\* C2: every result has exactly one of text and error: a success carries a
\* non-empty text and no error, a failure a non-empty reason and no text.
C2_TextXorError ==
    \A i \in 1 .. Len(results) :
        /\ results[i].success =>
              /\ results[i].text # None
              /\ results[i].text[1] # <<>>
              /\ results[i].error = None
        /\ ~results[i].success =>
              /\ results[i].error # None
              /\ results[i].error[1] # ""
              /\ results[i].text = None

C2_Witness ==
    /\ tpc = "done"
    /\ \E i \in 1 .. Len(results) :
          results[i].success /\ results[i].text = Some(<<"h", "i", SP, "A">>)
    /\ \E i \in 1 .. Len(results) :
          ~results[i].success /\ results[i].error = Some("yt-dlp error: ")

-----------------------------------------------------------------------------
(* Properties of _extract_caption_text *)

\* The three catalogs of the metadata in priority order, empty ones included.
CatalogsOf(video_info) ==
    <<video_info.requested_subtitles, video_info.subtitles, video_info.automatic_captions>>

\* Every descriptor of the metadata, by catalog c, language entry p and
\* place k in the entry's list.
DescriptorPlaces ==
    {x \in (1 .. 3) \X (1 .. 2) \X (1 .. 3) :
        /\ x[2] <= Len(CatalogsOf(info)[x[1]])
        /\ x[3] <= Len(CatalogsOf(info)[x[1]][x[2]][2].ds)}

LanguageAt(x) == CatalogsOf(info)[x[1]][x[2]][1]
DescriptorAt(x) == CatalogsOf(info)[x[1]][x[2]][2].ds[x[3]]
DecodeAt(x) == DownloadCaptionEntry(DescriptorAt(x), net)

Preferred(lang) == \E l \in 1 .. Len(rlangs) : rlangs[l] = lang

\* C6 as stated: if any descriptor exists in any catalog, the search does
\* not end with not-found.
C6_FoundIfAnyDescriptorExists ==
    (rpc = "done" /\ DescriptorPlaces # {}) => rresult # None

\* C6 amended: if at least one descriptor in any catalog decodes to
\* non-empty text, the search never returns not-found; and when the only
\* descriptor is filed under a language outside the preference list and
\* decodes to non-empty text, the search returns that text, from the
\* fallback pass.
C6_FoundIfAnyDescriptorHasText ==
    /\ (rpc = "done" /\ \E x \in DescriptorPlaces : HasText(DecodeAt(x))) =>
           rresult # None /\ rresult[1] # <<>>
    /\ \A x \in DescriptorPlaces :
          (DescriptorPlaces = {x} /\ ~Preferred(LanguageAt(x)) /\ HasText(DecodeAt(x))) =>
             /\ rpc # "raised"
             /\ rpc = "done" =>
                   /\ rresult = DecodeAt(x).value
                   /\ ridx > Len(PrimaryEntries(OrderedCaptionSources(info), rlangs))

C6_Witness ==
    /\ rpc = "done"
    /\ rresult # None
    /\ \E x \in DescriptorPlaces :
          /\ DescriptorPlaces = {x}
          /\ ~Preferred(LanguageAt(x))
          /\ rresult = DecodeAt(x).value

\* The descriptors the primary search is to visit: language l of the
\* preference list, catalog c, place k under that language.
PrimaryPlaces ==
    {y \in (1 .. Len(rlangs)) \X DescriptorPlaces : LanguageAt(y[2]) = rlangs[y[1]]}

\* Language first, then catalog, then place in the list.
Before(y, z) ==
    \/ y[1] < z[1]
    \/ y[1] = z[1] /\ y[2][1] < z[2][1]
    \/ y[1] = z[1] /\ y[2][1] = z[2][1] /\ y[2][3] < z[2][3]

PrimaryWithText == {y \in PrimaryPlaces : HasText(DecodeAt(y[2]))}

\* C7: the primary search returns the first non-empty decode in the order
\* language, then catalog (requested, manual, automatic), then descriptor.
\* So when the requested and the manual catalog both hold a language, the
\* requested one's first descriptor decodes to text and no more-preferred
\* language has a descriptor, the requested catalog's text is returned; and a
\* more-preferred language wins whatever catalog it is in.
C7_PrimaryOrder ==
    /\ \A y \in PrimaryWithText :
          (rpc = "done" /\ \A z \in PrimaryWithText : z = y \/ Before(y, z)) =>
              rresult = DecodeAt(y[2]).value
    /\ \A y \in PrimaryPlaces :
          (/\ y[2][1] = 1 /\ y[2][3] = 1
           /\ HasText(DecodeAt(y[2]))
           /\ Get(info.subtitles, rlangs[y[1]]) # NoEntries
           /\ \A z \in PrimaryPlaces : z[1] >= y[1]) =>
              /\ rpc # "raised"
              /\ rpc = "done" => rresult = DecodeAt(y[2]).value

C7_Witness ==
    /\ rpc = "done"
    /\ \E y \in PrimaryWithText, z \in PrimaryWithText :
          /\ y[2][1] = 1 /\ z[2][1] = 2
          /\ y[1] = z[1]
          /\ DecodeAt(y[2]).value # DecodeAt(z[2]).value
          /\ rresult = DecodeAt(y[2]).value

\* A reachable case of the second half of C7: the text returned is filed
\* under a more-preferred language in a lower-priority catalog, while a
\* less-preferred language has a different text in a higher-priority one.
C7_LanguageBeatsCatalog ==
    /\ rpc = "done"
    /\ \E y \in PrimaryWithText, z \in PrimaryWithText :
          /\ y[1] < z[1]
          /\ y[2][1] > z[2][1]
          /\ DecodeAt(y[2]).value # DecodeAt(z[2]).value
          /\ rresult = DecodeAt(y[2]).value


-----------------------------------------------------------------------------
(* Calls and return value of the reformatting pass *)

\* C11: in a run over a document with k chunks in which no call fails,
\* exactly k completion calls are issued; the i-th call carries the text of
\* chunk i and the position marker (Chunk i/k); a call is issued only when
\* every earlier call has returned and its output has been stored, so no two
\* calls are ever in flight together.
C11_OneSequentialCallPerChunk ==
    LET expected == SplitIntoChunks(content, CHUNK_MAX_CHARS)
        k == Len(expected)
    IN  /\ Len(calls) <= k
        /\ \A j \in 1 .. Len(calls) :
              /\ calls[j].i = j
              /\ calls[j].total = k
              /\ calls[j].chunk = expected[j]
              /\ j < Len(calls) => calls[j].resp.kind = "ok"
        /\ Len(formatted_chunks) = (IF fpc = "raised" /\ calls # <<>>
                                    THEN Len(calls) - 1 ELSE Len(calls))
        /\ fpc = "returned" => Len(calls) = k

\* A three-chunk document formatted to the end.
C11_Witness ==
    /\ fpc = "returned"
    /\ content = <<"a", "a", "a", "a", "a">>
    /\ Len(calls) = 3
    /\ calls[3].chunk = <<"a">>
    /\ calls[2].chunk = <<"a", "a">>


\* The output the pass keeps for call j: the normalized completion text, or
\* the original chunk where that text is blank.
OutputOf(j) ==
    LET formatted_text == MessageContentToText(calls[j].resp.mc)
    IN  IF IsBlank(formatted_text) THEN calls[j].chunk ELSE formatted_text

\* Where the j-th of the outputs starts in a text that holds them in order
\* with one character between neighbours.
RECURSIVE OutputOffset(_)
OutputOffset(j) == IF j = 1 THEN 0 ELSE OutputOffset(j - 1) + Len(OutputOf(j - 1)) + 1

\* Every completion call answered with its own chunk, unchanged.
IdentityCompletions ==
    \A j \in 1 .. Len(calls) :
        calls[j].resp.kind = "ok" /\ MessageContentToText(calls[j].resp.mc) = calls[j].chunk

\* C12: on success the returned text is the per-chunk outputs (the normalized
\* completion text, or the original chunk where it was substituted) in chunk
\* order, with exactly one newline between neighbours and nothing else added;
\* when every completion returns its chunk unchanged, a document no longer
\* than the chunk size is returned unchanged.
C12_ReturnIsOutputsJoinedByNewline ==
    fpc = "returned" =>
        LET n == Len(calls)
            r == fresult[1]
        IN  /\ fresult # None
            /\ n = 0 => r = <<>>
            /\ n > 0 =>
                  /\ Len(r) = OutputOffset(n) + Len(OutputOf(n))
                  /\ \A j \in 1 .. n :
                        /\ Slice(r, OutputOffset(j), OutputOffset(j) + Len(OutputOf(j)))
                              = OutputOf(j)
                        /\ j < n => r[OutputOffset(j + 1)] = NL
            /\ (IdentityCompletions /\ Len(content) <= CHUNK_MAX_CHARS) => r = content

\* Three outputs, the first a completion text, the second a substituted chunk.
C12_Witness ==
    /\ fpc = "returned"
    /\ Len(calls) = 3
    /\ calls[1].resp = Answers(StrContent(<<"X">>))
    /\ calls[2].resp = Answers(NoContent)
    /\ calls[3].resp = Answers(StrContent(calls[3].chunk))
    /\ fresult = Some(<<"X", NL>> \o calls[2].chunk \o <<NL>> \o calls[3].chunk)


\* The identifier begins with the five characters g, p, t, -, 5.
InGpt5Family(model_id) ==
    /\ Len(model_id) >= 5
    /\ model_id[1] = "g" /\ model_id[2] = "p" /\ model_id[3] = "t"
    /\ model_id[4] = "-" /\ model_id[5] = "5"

\* C13: for every model identifier and every chunk, a call for a model whose
\* identifier starts with gpt-5 carries max_completion_tokens = 4096 and
\* neither max_tokens nor temperature; a call for any other model carries
\* max_tokens = 4096 and temperature = 0 and no max_completion_tokens; the
\* two length parameters never appear in the same call.
C13_LengthParameterByModelFamily ==
    \A j \in 1 .. Len(calls) :
        LET args == calls[j].args
        IN  /\ InGpt5Family(model) =>
                  /\ args.max_completion_tokens = Some(4096)
                  /\ args.max_tokens = None
                  /\ args.temperature = None
            /\ ~InGpt5Family(model) =>
                  /\ args.max_tokens = Some(4096)
                  /\ args.temperature = Some(0)
                  /\ args.max_completion_tokens = None
            /\ ~(args.max_completion_tokens # None /\ args.max_tokens # None)

\* A second call for a model of the gpt-5 family.
C13_Witness ==
    /\ model = OPENAI_MODEL
    /\ Len(calls) = 2
    /\ calls[2].args.max_completion_tokens = Some(4096)


-----------------------------------------------------------------------------
(* Failure reasons of fetch_transcripts *)

\* C14: each failed video is classified by its cause: empty metadata gives
\* the reason "Unable to fetch video metadata", a caption search that finds
\* nothing gives "Transcript unavailable in requested languages", a provider
\* download error gives "yt-dlp error: " followed by the provider's message,
\* any other exception gives "Unexpected error: " followed by its message;
\* none of these exceptions escapes fetch_transcripts.
C14_FailureClassifiedByCause ==
    /\ tpc # "raised"
    /\ Len(results) = Len(causes)
    /\ \A j \in 1 .. Len(results) :
          LET cause == causes[j]
              result == results[j]
          IN  /\ result.success <=> cause.k = "text"
              /\ cause.k = "empty" =>
                    result.error = Some("Unable to fetch video metadata")
              /\ cause.k = "not_found" =>
                    result.error = Some("Transcript unavailable in requested languages")
              /\ cause.k = "download_error" =>
                    result.error = Some("yt-dlp error: " \o cause.msg)
              /\ cause.k \in {"error", "search_error"} =>
                    result.error = Some("Unexpected error: " \o cause.msg)

\* A download error for the first video and a failed lookup for the second.
C14_Witness ==
    /\ tpc = "done"
    /\ Len(results) = 2
    /\ causes[1] = [k |-> "download_error", msg |-> "Mock download error"]
    /\ results[1].error = Some("yt-dlp error: Mock download error")
    /\ causes[2].k = "not_found"


-----------------------------------------------------------------------------
(* Failures of one descriptor's payload *)

\* C15: any failure while fetching or decoding one descriptor's payload
\* (transport error, invalid JSON, or valid JSON that is not the expected
\* events/segments structure) counts as no text from this descriptor and
\* never propagates out of _download_caption_entry: the search is never left
\* by an exception.
C15_PayloadFailureNeverPropagates == rpc # "raised"

\* C15, as the code behaves: the search is left by an exception only at a descriptor
\* read as json3 whose payload is valid JSON of another structure; transport
\* errors and unparseable payloads are passed over.
C15_OnlyWrongStructurePropagates ==
    rpc = "raised" =>
        /\ fetched # <<>>
        /\ net[fetched[Len(fetched)]] = "json_array"
        /\ SearchOrder(info, rlangs)[ridx].ext \in {None, Some("json3"), Some("JSON3")}
        /\ rresult = None

\* The search passed over a transport error and then met a JSON array.
C15_Witness ==
    /\ rpc = "raised"
    /\ Len(fetched) = 2
    /\ net[fetched[1]] = "transport_error"
    /\ net[fetched[2]] = "json_array"


-----------------------------------------------------------------------------
(* Language preferences *)

\* The codes passed in (none for None), then the two defaults.
ProvidedThenDefaults ==
    (IF arg = None THEN <<>> ELSE arg[1]) \o <<"en", "en-US">>

\* The first position of a code in a list that holds it.
FirstIndex(list, code) ==
    CHOOSE i \in 1 .. Len(list) : list[i] = code /\ \A j \in 1 .. i - 1 : list[j] # code

\* C16: for every input list (or None) _normalize_languages returns the
\* provided codes followed by the defaults en, en-US, deduplicated keeping
\* the first occurrence of each code and dropping empty codes: the result has
\* no duplicates, is never empty, contains both defaults, and equals exactly
\* the defaults for None or an empty list.
C16_NormalizedLanguages ==
    (fn = "_normalize_languages" /\ ret # None) =>
        LET out == ret[1]
            all == ProvidedThenDefaults
            codes(l) == {l[i] : i \in 1 .. Len(l)}
        IN  /\ \A i, j \in 1 .. Len(out) : i # j => out[i] # out[j]
            /\ codes(out) = codes(all) \ {""}
            /\ \A i, j \in 1 .. Len(out) :
                  i < j => FirstIndex(all, out[i]) < FirstIndex(all, out[j])
            /\ out # <<>>
            /\ {"en", "en-US"} \subseteq codes(out)
            /\ arg \in {None, Some(<<>>)} => out = <<"en", "en-US">>

\* A duplicated default and an empty code passed in.
C16_Witness ==
    /\ fn = "_normalize_languages"
    /\ arg = Some(<<"en-US", "", "en-US">>)
    /\ ret = Some(<<"en-US", "en">>)


-----------------------------------------------------------------------------
(* Not-found *)

SearchEnded == rpc \in {"done", "raised"}
ReportsNotFound == rpc = "done" /\ rresult = None
NoDescriptorYieldsText == \A x \in DescriptorPlaces : ~HasText(DecodeAt(x))
AllCatalogsEmpty ==
    info.requested_subtitles = <<>> /\ info.subtitles = <<>> /\ info.automatic_captions = <<>>

\* C17: the search reports not-found exactly when no descriptor in any
\* catalog yields non-empty text; metadata whose three catalogs are all
\* absent or empty gives not-found without any payload fetch.
C17_NotFoundIffNoText ==
    /\ SearchEnded => (ReportsNotFound <=> NoDescriptorYieldsText)
    /\ AllCatalogsEmpty => (fetched = <<>> /\ (SearchEnded => ReportsNotFound))

\* C17, as the code behaves: a search that returns reports not-found exactly
\* when no descriptor yields non-empty text; a search with no such descriptor
\* can also be left by the exception of a descriptor whose payload is JSON of
\* another structure; empty catalogs give not-found without any fetch.
C17_NotFoundIffNoTextUnlessRaised ==
    /\ rpc = "done" => (rresult = None <=> NoDescriptorYieldsText)
    /\ rpc = "raised" => \E x \in DescriptorPlaces : DecodeAt(x).exc # None
    /\ AllCatalogsEmpty => (fetched = <<>> /\ (SearchEnded => ReportsNotFound))

\* Not-found after two payloads that held no text.
C17_Witness ==
    /\ ReportsNotFound
    /\ DescriptorPlaces # {}
    /\ Len(fetched) >= 2
    /\ NoDescriptorYieldsText


-----------------------------------------------------------------------------
(* The upload after a failed reformatting pass *)

\* C18: in main, when the user opts in to AI formatting and the pass fails
\* for any reason, the body is still the unformatted one built before, the
\* run goes on to the upload, and the content handed to the upload is exactly
\* that unformatted body: the failure neither loses the content nor ends the
\* run.
C18_FormatFailureFallsBackToUnformatted ==
    (use_ai /\ fpc = "raised") =>
        /\ mpc \in {"formatting", "write", "done", "aborted"}
        /\ doc_body = unformatted
        /\ mpc \in {"formatting", "write"} => write_calls = <<>>
        /\ mpc \in {"done", "aborted"} => write_calls = <<unformatted>>

\* The pass failed at its second call and the unformatted body was uploaded.
C18_Witness ==
    /\ use_ai
    /\ fpc = "raised"
    /\ Len(calls) = 2
    /\ calls[1].resp = Answers(StrContent(<<"X">>))
    /\ mpc = "done"
    /\ write_calls = <<unformatted>>


-----------------------------------------------------------------------------
(* Response content as text *)

\* The first of two optional strings that is present and not empty, or the
\* empty string.
FirstNonEmpty(a, b) ==
    IF a # None /\ a[1] # <<>> THEN a[1]
    ELSE IF b # None /\ b[1] # <<>> THEN b[1]
    ELSE <<>>

\* The text of one item as stated: a plain string itself, a structured item's
\* text field or else its content field, nothing for anything else.
StatedPiece(item) ==
    CASE item.t = "str" -> item.text[1]
      [] item.t \in {"dict", "obj_text", "obj_content"} -> FirstNonEmpty(item.text, item.content)
      [] OTHER -> <<>>

\* The text of one item as the code takes it: an object that has a text
\* attribute contributes that attribute only.
CodedPiece(item) ==
    IF item.t = "obj_text" THEN FirstNonEmpty(item.text, None) ELSE StatedPiece(item)

\* The pieces of the items, in order, with nothing between them.
RECURSIVE ConcatPieces(_, _)
ConcatPieces(Piece(_), items) ==
    IF items = <<>> THEN <<>>
    ELSE ConcatPieces(Piece, SubSeq(items, 1, Len(items) - 1)) \o Piece(items[Len(items)])

\* C19: _message_content_to_text uses a single string as-is; a sequence of
\* items yields the concatenation, in order and with no separator, of each
\* plain-string item and of each structured item's text taken from its text
\* field or else its content field; items with no extractable text contribute
\* nothing; empty or missing content yields the empty string.
C19_ContentNormalized ==
    (fn = "_message_content_to_text" /\ ret # None) =>
        /\ arg.t = "none" => ret[1] = <<>>
        /\ arg.t = "str" => ret[1] = arg.s
        /\ arg.t = "list" =>
              ret[1] = ConcatPieces(StatedPiece, arg.items)

\* C19, as the code behaves: the same, except that an item which is an
\* object with a text attribute contributes that attribute only, never its
\* content attribute; any other kind of content is rendered by str().
C19_ContentNormalizedTextAttributeOnly ==
    (fn = "_message_content_to_text" /\ ret # None) =>
        /\ arg.t = "none" => ret[1] = <<>>
        /\ arg.t \in {"str", "other"} => ret[1] = arg.s
        /\ arg.t = "list" =>
              ret[1] = ConcatPieces(CodedPiece, arg.items)

\* A dict falls back to its content; an object with an empty text does not.
C19_Witness ==
    /\ fn = "_message_content_to_text"
    /\ arg = ListContent(<<DictItem(Some(<<>>), Some(<<"c">>)),
                           TextObjItem(Some(<<>>), Some(<<"c">>))>>)
    /\ ret = Some(<<"c">>)


-----------------------------------------------------------------------------
(* Structured payloads as text *)

\* One segment text with its newlines turned into spaces, cut down to the
\* span from its first to its last non-whitespace character.
Trimmed(seg) ==
    LET spaced == [i \in 1 .. Len(seg) |-> IF seg[i] = NL THEN SP ELSE seg[i]]
        inked == {i \in 1 .. Len(seg) : spaced[i] \notin Whitespace}
    IN  IF inked = {} THEN <<>>
        ELSE SubSeq(spaced, CHOOSE i \in inked : \A j \in inked : i <= j,
                            CHOOSE i \in inked : \A j \in inked : i >= j)

\* The segments of all events, in event order then segment order.
RECURSIVE AllSegments(_)
AllSegments(events) ==
    IF events = <<>> THEN <<>>
    ELSE AllSegments(SubSeq(events, 1, Len(events) - 1)) \o events[Len(events)]

\* The trimmed texts that are not empty, with one space between neighbours.
RECURSIVE SpacedTexts(_)
SpacedTexts(segs) ==
    IF segs = <<>> THEN <<>>
    ELSE LET before == SpacedTexts(SubSeq(segs, 1, Len(segs) - 1))
             last == Trimmed(segs[Len(segs)])
         IN  IF last = <<>> THEN before
             ELSE IF before = <<>> THEN last
             ELSE before \o <<SP>> \o last

\* C20: decoding a structured (json3) payload yields the texts of all
\* segments in event order then segment order, each with its newlines turned
\* into spaces and trimmed, empty results skipped, joined by single spaces;
\* the events [[Hello, world]] decode to "Hello world", and a payload with no
\* non-empty segment decodes to the empty text.
C20_Json3Decoding ==
    (fn = "_json3_payload_to_text" /\ ret # None) =>
        /\ ret[1] = SpacedTexts(AllSegments(arg.events))
        /\ arg.events = <<<<Hello, World>>>> => ret[1] = Hello \o <<SP>> \o World
        /\ (\A e \in 1 .. Len(arg.events) : \A k \in 1 .. Len(arg.events[e]) :
                \A i \in 1 .. Len(arg.events[e][k]) : arg.events[e][k][i] \in Whitespace)
              => ret[1] = <<>>

\* Two events; a blank segment between two kept ones, newlines inside a text.
C20_Witness ==
    /\ fn = "_json3_payload_to_text"
    /\ arg = JsonObject(<< <<<<SP, "b", NL>>, <<NL>>>>, <<<<"c", NL, NL, "d">>, <<>>>> >>)
    /\ ret = Some(<<"b", SP, "c", SP, SP, "d">>)


-----------------------------------------------------------------------------
(* Subtitle markup as text *)

\* A trimmed line that is kept: not blank, not beginning with WEBVTT or NOTE,
\* not beginning with a timestamp range HH:MM:SS.mmm --> , not purely digits.
ContentLine(l) ==
    /\ l # <<>>
    /\ ~(Len(l) >= 6 /\ SubSeq(l, 1, 6) = <<"W", "E", "B", "V", "T", "T">>)
    /\ ~(Len(l) >= 4 /\ SubSeq(l, 1, 4) = <<"N", "O", "T", "E">>)
    /\ ~(/\ Len(l) >= 17
         /\ \A i \in {1, 2, 4, 5, 7, 8, 10, 11, 12} : l[i] \in Digits
         /\ l[3] = ":" /\ l[6] = ":" /\ l[9] = "."
         /\ l[13] = SP /\ l[14] = "-" /\ l[15] = "-" /\ l[16] = ">" /\ l[17] = SP)
    /\ \E i \in 1 .. Len(l) : l[i] \notin Digits

\* The kept lines, trimmed, in order, with one space between neighbours.
RECURSIVE SpacedContentLines(_)
SpacedContentLines(lines) ==
    IF lines = <<>> THEN <<>>
    ELSE LET before == SpacedContentLines(SubSeq(lines, 1, Len(lines) - 1))
             last == Trimmed(lines[Len(lines)])
         IN  IF ~ContentLine(last) THEN before
             ELSE IF before = <<>> THEN last
             ELSE before \o <<SP>> \o last

\* C21: for every non-json3 payload _strip_caption_markup returns the
\* single-space join, in original order, of exactly those trimmed lines that
\* are non-blank, do not begin with WEBVTT or NOTE, do not begin with a
\* timestamp range and are not purely digits; a payload made of a WEBVTT
\* header, a timestamp line, a cue index 1 and the line Hi there decodes to
\* exactly Hi there.
C21_MarkupStripped ==
    (fn = "_strip_caption_markup" /\ ret # None) =>
        /\ ret[1] = SpacedContentLines(SplitLines(arg))
        /\ SplitLines(arg) = <<HeaderLine, TimestampLine, <<"1">>, HiThere>> =>
              ret[1] = HiThere

\* The example payload, decoded.
C21_Witness ==
    /\ fn = "_strip_caption_markup"
    /\ SplitLines(arg) = <<HeaderLine, <<>>, <<"1">>, TimestampLine, HiThere>>
    /\ ret = Some(HiThere)


-----------------------------------------------------------------------------
(* Words of the document after the reformatting pass *)

\* Every element of `small` occurs in `big`, in the same order.
RECURSIVE IsSubsequence(_, _)
IsSubsequence(small, big) ==
    IF small = <<>> THEN TRUE
    ELSE IF big = <<>> THEN FALSE
    ELSE IF Head(small) = Head(big) THEN IsSubsequence(Tail(small), Tail(big))
    ELSE IsSubsequence(small, Tail(big))

\* The completion for chunk j is blank or has exactly the words of the chunk.
KeepsWords(j) ==
    LET formatted_text == MessageContentToText(calls[j].resp.mc)
    IN  calls[j].resp.kind = "ok"
        /\ (IsBlank(formatted_text) \/ Words(formatted_text) = Words(calls[j].chunk))

\* C22: the pass can only reformat, never erase content: whatever the
\* completion calls answer, every word of the input document is still
\* present, in order, in the text returned by format_document_with_ai.
C22_NoWordErased ==
    fpc = "returned" => IsSubsequence(Words(content), Words(fresult[1]))

\* C22, as the code behaves: only a blank completion is replaced by its
\* chunk; when every completion is blank or keeps the words of its chunk, the
\* non-whitespace characters of the document are all returned, in order, and
\* nothing else is.
C22_NothingErasedByBlankOrFaithfulAnswers ==
    (fpc = "returned" /\ \A j \in 1 .. Len(calls) : KeepsWords(j)) =>
        Without(fresult[1], Whitespace) = Without(content, Whitespace)

\* A blank answer for the first chunk, a faithful one for the second.
C22_Witness ==
    /\ fpc = "returned"
    /\ Len(calls) = 2
    /\ calls[1].resp = Answers(StrContent(<<SP, NL>>))
    /\ calls[2].resp = Answers(StrContent(calls[2].chunk))
    /\ Words(fresult[1]) = Words(content)
    /\ Len(Words(content)) = 2


-----------------------------------------------------------------------------
(* No retries *)

\* C23: no unit of work is retried.  Within one fetch_transcripts call the
\* metadata lookup is issued exactly once per input video ID, in input order,
\* also when it fails; within one format_document_with_ai call at most one
\* completion call is issued per chunk, and a failed or blank response is
\* never requested again.
C23_NoRetry ==
    /\ Len(lookups) <= Len(video_ids)
    /\ \A i \in 1 .. Len(lookups) : lookups[i] = video_ids[i]
    /\ Len(lookups) = Len(results)
    /\ tpc = "done" => Len(lookups) = Len(video_ids)
    /\ Len(calls) <= Len(SplitIntoChunks(content, CHUNK_MAX_CHARS))
    /\ \A j, k \in 1 .. Len(calls) : j < k => calls[j].i < calls[k].i
    /\ \A j \in 1 .. Len(calls) : calls[j].resp.kind # "ok" => j = Len(calls)

\* Two lookups for two failed videos.
C23_Witness ==
    /\ tpc = "done"
    /\ Len(lookups) = 2
    /\ ~results[1].success /\ ~results[2].success


-----------------------------------------------------------------------------
(* Cookie settings *)

\* A cookie variable is set when it has a non-empty value.
IsSet(value) == value # None /\ value[1] # ""

\* C24: the two cookie settings are mutually exclusive and the file takes
\* precedence: the options never contain both cookiefile and
\* cookiesfrombrowser; when the cookie-file variable is set, cookiefile is
\* used whatever the browser variable holds; cookiesfrombrowser is used only
\* when the file variable is unset or empty and the browser variable is set,
\* and is used then; with neither set, neither option is present.
C24_CookiesExclusiveFileFirst ==
    (fn = "_build_ytdlp_options" /\ ret # None) =>
        LET options == ret[1]
        IN  /\ ~(options.cookiefile # None /\ options.cookiesfrombrowser # None)
            /\ IsSet(arg.cookies_file) =>
                  options.cookiefile = arg.cookies_file
            /\ options.cookiesfrombrowser # None <=>
                  (~IsSet(arg.cookies_file) /\ IsSet(arg.cookies_browser))
            /\ options.cookiesfrombrowser # None =>
                  options.cookiesfrombrowser = arg.cookies_browser
            /\ (~IsSet(arg.cookies_file) /\ ~IsSet(arg.cookies_browser)) =>
                  (options.cookiefile = None /\ options.cookiesfrombrowser = None)

\* Both variables set: the file wins.
C24_Witness ==
    /\ fn = "_build_ytdlp_options"
    /\ arg.cookies_file = Some("cookies.txt")
    /\ arg.cookies_browser = Some("firefox")
    /\ ret # None
    /\ ret[1].cookiefile = Some("cookies.txt")
    /\ ret[1].cookiesfrombrowser = None


-----------------------------------------------------------------------------
(* Fetches of one caption search *)

\* The descriptors that have a URL: the ones whose payload can be fetched.
FetchablePlaces ==
    {x \in DescriptorPlaces : DescriptorAt(x).url \notin {None, Some("")}}

\* No two descriptors of the metadata share a URL, so that a URL fetched
\* names one descriptor.
DistinctURLs ==
    \A x, y \in FetchablePlaces : x # y => DescriptorAt(x).url # DescriptorAt(y).url

\* How many times a URL was fetched so far.
TimesFetched(u) == Cardinality({k \in 1 .. Len(fetched) : fetched[k] = u})

\* C25: the fallback search visits only the entries that remain after the
\* primary search: within one call no caption descriptor's payload is
\* fetched more than once.
C25_NoDescriptorFetchedTwice ==
    DistinctURLs => \A u \in URLs : TimesFetched(u) <= 1

\* C25, as the code behaves: the fallback search walks every entry of every
\* catalog again, so a descriptor under a preferred language whose payload
\* held no text is fetched a second time; no descriptor is fetched more than
\* twice, and one under a language outside the preference list only once.
C25_PreferredDescriptorsFetchedAgain ==
    DistinctURLs =>
        \A x \in FetchablePlaces :
            LET u == DescriptorAt(x).url[1]
            IN  /\ TimesFetched(u) <= 2
                /\ TimesFetched(u) = 2 =>
                      /\ Preferred(LanguageAt(x))
                      /\ ~HasText(DecodeAt(x))
                /\ (rpc = "done" /\ rresult = None) =>
                      TimesFetched(u) = (IF Preferred(LanguageAt(x)) THEN 2 ELSE 1)

\* One descriptor under a preferred language, its payload fetched twice.
C25_Witness ==
    /\ DistinctURLs
    /\ Cardinality(DescriptorPlaces) = 1
    /\ fetched = <<"A", "A">>
    /\ rpc = "done"
    /\ rresult = None


-----------------------------------------------------------------------------
(* Order of the primary and the fallback search *)

\* Catalog, then language entry within the catalog, then place in the list.
PlaceBefore(x, z) ==
    \/ x[1] < z[1]
    \/ x[1] = z[1] /\ x[2] < z[2]
    \/ x[1] = z[1] /\ x[2] = z[2] /\ x[3] < z[3]

\* The places in the order of the visits when the primary search (language,
\* catalog, place) is run to its end before the fallback search (catalog,
\* language entry, place) starts.
VisitOrder ==
    LET P == PrimaryPlaces
        D == DescriptorPlaces
        primary == [n \in 1 .. Cardinality(P) |->
                       (CHOOSE y \in P :
                           Cardinality({z \in P : Before(z, y)}) = n - 1)[2]]
        fallback == [n \in 1 .. Cardinality(D) |->
                        CHOOSE x \in D :
                           Cardinality({z \in D : PlaceBefore(z, x)}) = n - 1]
    IN  primary \o fallback

HasURL(x) == DescriptorAt(x).url \notin {None, Some("")}

\* The URLs fetched by a sequence of visits: a descriptor without a URL is
\* passed over without a fetch.
URLsOfVisits(places) ==
    LET fetching == SelectSeq(places, HasURL)
    IN  [n \in 1 .. Len(fetching) |-> DescriptorAt(fetching[n]).url[1]]

\* The number of descriptor visits made so far.
Visits ==
    CASE rpc = "search" -> ridx - 1
      [] rpc = "raised" -> ridx
      [] rpc = "done" /\ rresult # None -> ridx
      [] rpc = "done" /\ rresult = None /\ ridx > 0 -> ridx - 1
      [] OTHER -> 0

\* C26: the fallback search starts only after the primary search is
\* exhausted: no descriptor under a language outside the preference list is
\* fetched until every descriptor under every preferred language in every
\* catalog has been attempted without yielding text; the fallback then walks
\* the catalogs in priority order, every language entry of each catalog, and
\* returns the first non-empty decode.
C26_FallbackAfterPrimaryInCatalogOrder ==
    rpc # "idle" =>
        LET order == VisitOrder
            primaries == Len(order) - Cardinality(DescriptorPlaces)
            last == order[Visits]
        IN  /\ Visits <= Len(order)
            /\ fetched = URLsOfVisits(SubSeq(order, 1, Visits))
            /\ Visits > primaries =>
                  \A n \in 1 .. primaries : ~HasText(DecodeAt(order[n]))
            /\ (rpc = "done" /\ rresult # None /\ Visits > primaries) =>
                  /\ HasText(DecodeAt(last))
                  /\ rresult = DecodeAt(last).value
                  /\ \A n \in (primaries + 1) .. (Visits - 1) :
                        ~HasText(DecodeAt(order[n]))

\* A text found by the fallback search in the second catalog it walked,
\* after a primary search that fetched a payload without text.
C26_Witness ==
    /\ rpc = "done"
    /\ rresult # None
    /\ PrimaryPlaces # {}
    /\ Visits > Cardinality(PrimaryPlaces) + 1
    /\ Len(fetched) >= 3
    /\ VisitOrder[Visits][1] > 1
    /\ ~Preferred(LanguageAt(VisitOrder[Visits]))

-----------------------------------------------------------------------------
(* The cut-point rule *)

\* The indices strictly between p and p + chunk_size that hold ch.
Inside(p, ch) ==
    {i \in (p + 1) .. (p + chunk_size - 1) : i < Len(text) /\ text[i + 1] = ch}

Last(S) == CHOOSE i \in S : \A j \in S : j <= i

\* The end the rule gives to the chunk that starts at p.
RuleCut(p) ==
    IF Len(text) - p > chunk_size
    THEN IF Inside(p, NL) # {} THEN Last(Inside(p, NL))
         ELSE IF Inside(p, SP) # {} THEN Last(Inside(p, SP))
         ELSE p + chunk_size
    ELSE Len(text)

\* C27: when more than chunk_size characters remain from the chunk start p,
\* the chunk ends at the last newline strictly between p and p + chunk_size
\* if there is one, otherwise at the last space strictly between them if
\* there is one, otherwise at exactly p + chunk_size; a cut inside a token
\* happens only when the window holds no newline and no space after its
\* first character; when at most chunk_size characters remain the chunk is
\* the whole remainder.
C27_CutPointRule ==
    /\ Len(chunks) = Len(spans)
    /\ \A i \in 1 .. Len(spans) :
          /\ spans[i][2] = RuleCut(spans[i][1])
          /\ chunks[i] = SubSeq(text, spans[i][1] + 1, spans[i][2])
          /\ MidTokenCut(i) =>
                /\ Inside(spans[i][1], NL) = {}
                /\ Inside(spans[i][1], SP) = {}
                /\ spans[i][2] = spans[i][1] + chunk_size

\* A chunk cut at a newline although a space lies later in its window,
\* followed by a chunk that is the whole remainder.
C27_Witness ==
    /\ cpc = "done"
    /\ Len(spans) >= 2
    /\ Len(text) - spans[1][1] > chunk_size
    /\ Inside(spans[1][1], NL) # {}
    /\ Inside(spans[1][1], SP) # {}
    /\ Last(Inside(spans[1][1], SP)) > Last(Inside(spans[1][1], NL))
    /\ spans[1][2] = Last(Inside(spans[1][1], NL))
    /\ spans[Len(spans)][2] = Len(text)


-----------------------------------------------------------------------------
(* The cleanup after a failed upload *)

\* The calls of one kind in the log of Google calls.
CallsOf(op) == {k \in 1 .. Len(doc_calls) : doc_calls[k].op = op}

\* C28: in main, if write_doc_content fails with its RuntimeError after the
\* document was created, delete_google_doc is attempted exactly once, for
\* that same document ID, and the write error is then raised whether or not
\* the delete succeeded; when the write succeeds no delete is attempted;
\* the write is attempted at most once per run and only after the document
\* was created.
C28_CleanupOnceAndWriteErrorRaised ==
    /\ Cardinality(CallsOf("write")) <= 1
    /\ \A w \in CallsOf("write") :
          /\ \E c \in CallsOf("create") :
                c < w /\ doc_calls[c].ok /\ doc_calls[w].id = doc_id /\ doc_id # None
          /\ doc_calls[w].ok =>
                /\ CallsOf("delete") = {}
                /\ main_error = None
                /\ mpc = "done"
          /\ (~doc_calls[w].ok /\ main_error # Some("write: other")) =>
                /\ Cardinality(CallsOf("delete")) = 1
                /\ \A d \in CallsOf("delete") :
                      d = w + 1 /\ doc_calls[d].id = doc_calls[w].id
                /\ main_error = Some("write: RuntimeError")
                /\ mpc = "aborted"
    /\ CallsOf("write") = {} => CallsOf("delete") = {}
    /\ mpc \in {"create", "ask", "format", "formatting", "write"} =>
          CallsOf("write") = {}

\* The upload of the reformatted body failed and the delete of the document
\* failed as well.
C28_Witness ==
    /\ mpc = "aborted"
    /\ use_ai
    /\ fpc = "returned"
    /\ \E w \in CallsOf("write"), d \in CallsOf("delete") :
          /\ ~doc_calls[w].ok
          /\ ~doc_calls[d].ok
          /\ doc_calls[d].id = Some("d2")
    /\ main_error = Some("write: RuntimeError")
    /\ ~doc_deleted


-----------------------------------------------------------------------------
(* Termination of the split *)

\* The scan position moves forward with every chunk emitted.
PositionAdvances == Len(chunks') > Len(chunks) => pos' > pos

\* The split of an empty text, and the pass over an empty document.
EmptyTextHandled ==
    /\ (cpc = "done" /\ text = <<>>) => chunks = <<>>
    /\ (fpc # "idle" /\ content = <<>>) =>
          /\ calls = <<>>
          /\ (fpc # "entry" /\ ~PreconditionFails) =>
                fpc = "returned" /\ fresult = Some(<<>>)

\* C29: for every text and every chunk size of at least 1,
\* _split_into_chunks terminates: the scan position strictly increases with
\* every emitted chunk, so the number of chunks is at most the length of the
\* text; an empty text yields the empty sequence, and
\* format_document_with_ai then returns the empty string without any
\* completion call.
C29_SplitTerminates ==
    /\ (cpc = "entry") ~> (cpc = "done")
    /\ [][PositionAdvances]_vars
    /\ [](Len(chunks) <= Len(text))
    /\ []EmptyTextHandled

\* A split that ended with as many chunks as the text has characters.
C29_Witness ==
    /\ cpc = "done"
    /\ chunk_size = 1
    /\ Len(text) >= 3
    /\ Len(chunks) = Len(text)

====
